---- MODULE Spec2Model ----
(***************************************************************************)
(* State-machine model of the myomectomy aftercare backend: the Express    *)
(* routers, the authenticateToken middleware, the auth / brochure-progress *)
(* / symptom-entry controllers and services, and the Mongoose schemas that *)
(* decide what a save or an update stores.                                 *)
(*                                                                         *)
(* Strings are sequences of one-character strings, so that trim,           *)
(* toLowerCase and the regular expressions are computed and not assumed.   *)
(* Time is counted in half days.                                           *)
(***************************************************************************)
EXTENDS Integers, Sequences, FiniteSets, TLC

VARIABLES users, nextUserId, entries, nextEntryId, progress, nextProgId,
          now, pending, last

vars == <<users, nextUserId, entries, nextEntryId, progress, nextProgId,
          now, pending, last>>

stores == <<users, nextUserId, entries, nextEntryId, progress, nextProgId>>

None == "none"
NoUser == 0
NullDate == -1
Idle == [op |-> "idle"]

(***************************************************************************)
(* Bounds of the model.                                                    *)
(***************************************************************************)
MaxUsers == 2
MaxEntries == 2
MaxProgress == 2
MaxTime == 14

Slots == {1, 2}

(***************************************************************************)
(* Characters and strings.                                                 *)
(***************************************************************************)
UpperChars == {"A", "B", "P", "S", "X"}
LowerChars == {"a", "b", "c", "d", "o", "p", "r", "s", "w", "x"}
DigitChars == {"0", "1"}
SpaceChars == {" "}
WordChars == UpperChars \cup LowerChars \cup DigitChars \cup {"_"}

UpperLetters ==
  <<"A", "B", "C", "D", "E", "F", "G", "H", "I", "J", "K", "L", "M",
    "N", "O", "P", "Q", "R", "S", "T", "U", "V", "W", "X", "Y", "Z">>

LowerLetters ==
  <<"a", "b", "c", "d", "e", "f", "g", "h", "i", "j", "k", "l", "m",
    "n", "o", "p", "q", "r", "s", "t", "u", "v", "w", "x", "y", "z">>

toLowerChar(c) ==
  IF \E i \in DOMAIN UpperLetters : UpperLetters[i] = c
  THEN LowerLetters[CHOOSE i \in DOMAIN UpperLetters : UpperLetters[i] = c]
  ELSE c

toLowerCase(s) == [i \in DOMAIN s |-> toLowerChar(s[i])]

RECURSIVE trimStart(_)
trimStart(s) ==
  IF s # <<>> /\ Head(s) \in SpaceChars THEN trimStart(Tail(s)) ELSE s

RECURSIVE trimEnd(_)
trimEnd(s) ==
  IF s # <<>> /\ s[Len(s)] \in SpaceChars
  THEN trimEnd(SubSeq(s, 1, Len(s) - 1))
  ELSE s

trim(s) == trimEnd(trimStart(s))

(* /^[^\s@]+@[^\s@]+\.[^\s@]+$/ *)
isValidEmail(email) ==
  /\ \A i \in DOMAIN email : email[i] \notin SpaceChars
  /\ Cardinality({i \in DOMAIN email : email[i] = "@"}) = 1
  /\ LET at == CHOOSE i \in DOMAIN email : email[i] = "@"
     IN /\ at > 1
        /\ \E j \in (at + 2)..(Len(email) - 1) : email[j] = "."

(* \w+([.-]?\w+)* : word characters in groups joined by a single . or - *)
IsWordGroups(s) ==
  /\ s # <<>>
  /\ \A i \in DOMAIN s : s[i] \in WordChars \cup {".", "-"}
  /\ s[1] \in WordChars
  /\ s[Len(s)] \in WordChars
  /\ \A i \in 1..(Len(s) - 1) : s[i] \in WordChars \/ s[i + 1] \in WordChars

(* (\.\w{2,3})+ *)
RECURSIVE IsTldSuffix(_)
IsTldSuffix(s) ==
  /\ Len(s) >= 3
  /\ s[1] = "."
  /\ \/ /\ s[2] \in WordChars /\ s[3] \in WordChars
        /\ (Len(s) = 3 \/ IsTldSuffix(SubSeq(s, 4, Len(s))))
     \/ /\ Len(s) >= 4
        /\ s[2] \in WordChars /\ s[3] \in WordChars /\ s[4] \in WordChars
        /\ (Len(s) = 4 \/ IsTldSuffix(SubSeq(s, 5, Len(s))))

(* userSchema.email.match:                                                 *)
(* /^\w+([.-]?\w+)*@\w+([.-]?\w+)*(\.\w{2,3})+$/                           *)
schemaEmailMatch(email) ==
  /\ Cardinality({i \in DOMAIN email : email[i] = "@"}) = 1
  /\ LET at == CHOOSE i \in DOMAIN email : email[i] = "@"
         dom == SubSeq(email, at + 1, Len(email))
     IN /\ IsWordGroups(SubSeq(email, 1, at - 1))
        /\ \E k \in 1..(Len(dom) - 1) :
             /\ IsWordGroups(SubSeq(dom, 1, k))
             /\ IsTldSuffix(SubSeq(dom, k + 1, Len(dom)))

(* /^(?=.*[a-z])(?=.*[A-Z])(?=.*\d)/ *)
passwordPattern(p) ==
  /\ \E i \in DOMAIN p : p[i] \in LowerChars
  /\ \E i \in DOMAIN p : p[i] \in UpperChars
  /\ \E i \in DOMAIN p : p[i] \in DigitChars

(***************************************************************************)
(* ValidationService (src/services/validation.service.ts).  A missing      *)
(* field and the empty string are both falsy and are both written <<>>.    *)
(***************************************************************************)
nameErrors(name, label) ==
  IF name # <<>>
  THEN IF Len(trim(name)) < 2
       THEN <<label \o " must be at least 2 characters long">>
       ELSE <<>>
  ELSE <<label \o " is required">>

(* data.email?.trim() without the lowercasing *)
sanitizeEmail_TrimOnly(raw) == trim(raw)

(* data.email?.trim().toLowerCase() *)
sanitizeEmail(raw) == toLowerCase(trim(raw))

emailErrors(raw) ==
  LET email == sanitizeEmail(raw)
  IN IF email = <<>> THEN <<"Email is required">>
     ELSE IF ~isValidEmail(email) THEN <<"Invalid email format">>
     ELSE <<>>

registrationPasswordErrors(password) ==
  IF password = <<>> THEN <<"Password is required">>
  ELSE IF Len(password) < 8
       THEN <<"Password must be at least 4 characters long">>
  ELSE IF ~passwordPattern(password)
       THEN <<"Password must contain at least one uppercase letter, one lowercase letter, and one number">>
  ELSE <<>>

validateRegistration(data) ==
  LET errors == nameErrors(data.firstName, "First name")
                \o nameErrors(data.lastName, "Last name")
                \o emailErrors(data.email)
                \o registrationPasswordErrors(data.password)
  IN [isValid |-> errors = <<>>,
      errors |-> errors,
      sanitizedData |-> [firstName |-> trim(data.firstName),
                         lastName |-> trim(data.lastName),
                         email |-> sanitizeEmail(data.email),
                         password |-> data.password]]

(* validateLogin that hands on the email as it was typed *)
validateLogin_RawEmail(data) ==
  LET errors == emailErrors(data.email)
                \o (IF data.password = <<>> THEN <<"Password is required">>
                    ELSE <<>>)
  IN [isValid |-> errors = <<>>,
      errors |-> errors,
      sanitizedData |-> [email |-> data.email,
                         password |-> data.password]]

validateLogin(data) ==
  LET errors == emailErrors(data.email)
                \o (IF data.password = <<>> THEN <<"Password is required">>
                    ELSE <<>>)
  IN [isValid |-> errors = <<>>,
      errors |-> errors,
      sanitizedData |-> [email |-> sanitizeEmail(data.email),
                         password |-> data.password]]

(***************************************************************************)
(* User model (user.model.ts): schema setters and validators, the pre-save *)
(* hook and comparePassword.  bcrypt.hashSync(p, 10) draws a random salt;  *)
(* the hash is "$" salt p, a string like any other, and compareSync        *)
(* rehashes the candidate with the salt of the stored value.               *)
(***************************************************************************)
Salts == {"0", "1"}

bcryptHash(p, salt) == <<"$", salt>> \o p

IsBcryptHash(h) == Len(h) >= 2 /\ h[1] = "$" /\ h[2] \in Salts

bcryptCompare(candidate, stored) ==
  IsBcryptHash(stored) /\ stored = bcryptHash(candidate, stored[2])

comparePassword(user, candidatePassword) ==
  IF user.password = <<>> THEN FALSE
  ELSE bcryptCompare(candidatePassword, user.password)

(* userSchema.pre('save'): hash only when the password path is modified;   *)
(* assigning a value equal to the loaded one leaves the path unmodified.   *)
preSavePassword(isNew, loaded, assigned, salt) ==
  IF isNew \/ assigned # loaded THEN bcryptHash(assigned, salt) ELSE loaded

userSchemaSet(data) ==
  [firstName |-> trim(data.firstName),
   lastName |-> trim(data.lastName),
   email |-> toLowerCase(trim(data.email)),
   password |-> data.password]

NameMinLength == 2
NameMaxLength == 30
SchemaPasswordMinLength == 4

(* the validators of one path of userSchema *)
userPathValid(path, value) ==
  CASE path \in {"firstName", "lastName"} ->
         Len(value) >= NameMinLength /\ Len(value) <= NameMaxLength
    [] path = "email" -> value # <<>> /\ schemaEmailMatch(value)
    [] path = "password" -> Len(value) >= SchemaPasswordMinLength
    [] OTHER -> TRUE

(* save() validates the paths that were set *)
userSchemaValid(doc) == \A path \in DOMAIN doc : userPathValid(path, doc[path])

UserIdsByEmail(email) == {u \in DOMAIN users : users[u].email = email}

(***************************************************************************)
(* Tokens (auth.service.ts generateToken, jsonwebtoken verify).            *)
(***************************************************************************)
Day == 2
(* expiresIn: '1d' *)
TokenTTL_OneDay == Day

TokenTTL == 7 * Day
ServerSecret == "server"
NoToken == [kind |-> "absent"]
MalformedToken == [kind |-> "malformed"]

generateToken(userId, email, t) ==
  [kind |-> "jwt", userId |-> userId, email |-> email, iat |-> t,
   exp |-> t + TokenTTL, sig |-> ServerSecret]

(* jwt.verify that lets a token pass at the instant of its expiry *)
jwtVerify_ExpiredAfter(token) ==
  IF token.kind # "jwt" THEN "JsonWebTokenError"
  ELSE IF token.sig # ServerSecret THEN "JsonWebTokenError"
  ELSE IF now > token.exp THEN "TokenExpiredError"
  ELSE "ok"

(* jwt.verify with ignoreExpiration *)
jwtVerify_IgnoreExpiration(token) ==
  IF token.kind # "jwt" THEN "JsonWebTokenError"
  ELSE IF token.sig # ServerSecret THEN "JsonWebTokenError"
  ELSE "ok"

(* the error jwt.verify throws, or "ok" *)
jwtVerify(token) ==
  IF token.kind # "jwt" THEN "JsonWebTokenError"
  ELSE IF token.sig # ServerSecret THEN "JsonWebTokenError"
  ELSE IF now >= token.exp THEN "TokenExpiredError"
  ELSE "ok"

(* AuthService.verifyToken: the decoded payload, or Error('Invalid token') *)
verifyToken(token) ==
  IF jwtVerify(token) = "ok"
  THEN [ok |-> TRUE, userId |-> token.userId, email |-> token.email]
  ELSE [ok |-> FALSE, message |-> "Invalid token"]

(* TokenExpiredError.prototype inherits from JsonWebTokenError.prototype *)
InstanceOfJsonWebTokenError(err) ==
  err \in {"JsonWebTokenError", "TokenExpiredError"}

(* The tokens a client can hold.  signin changes nothing but the token it  *)
(* returns, so a user can hold a token issued at any time since the        *)
(* account was created; the ones kept are the token issued now and the     *)
(* one that has just expired.  A forged token carries the payload of a     *)
(* fresh one under another secret.                                         *)
FreshTokens == {generateToken(u, users[u].email, now) : u \in DOMAIN users}

ExpiredTokens ==
  {generateToken(u, users[u].email, now - TokenTTL) :
     u \in {v \in DOMAIN users : users[v].createdAt <= now - TokenTTL}}

IssuedTokens == FreshTokens \cup ExpiredTokens

ForgedTokens == {[t EXCEPT !.sig = "other"] : t \in FreshTokens}

ClientTokens == {NoToken, MalformedToken} \cup IssuedTokens \cup ForgedTokens

(***************************************************************************)
(* Responses.  last describes the step just taken: the handler, the        *)
(* request, the identity the gate resolved, and the HTTP status and body   *)
(* (status 0 while the request is suspended at an await).                  *)
(***************************************************************************)
Step(op, req, user, status, body) ==
  [op |-> op, req |-> req, user |-> user, status |-> status, body |-> body]

NoBody == [x |-> None]

Lit(x) == [lit |-> x]
Oid(n) == [oid |-> n]
Param(name) == [param |-> name]

Req(method, path, body) == [method |-> method, path |-> path, body |-> body]

GeneralFailure(error) ==
  [success |-> FALSE, error |-> error,
   errors |-> <<[message |-> "An unexpected error occurred. Please try again.",
                 field |-> "general"]>>]

FieldFailure(error, message, field) ==
  [success |-> FALSE, error |-> error,
   errors |-> <<[message |-> message, field |-> field]>>]

Init ==
  /\ users = <<>>
  /\ nextUserId = 1
  /\ entries = <<>>
  /\ nextEntryId = 1
  /\ progress = <<>>
  /\ nextProgId = 1
  /\ now = 0
  /\ pending = [s \in Slots |-> Idle]
  /\ last = Step("init", NoBody, NoUser, 0, NoBody)

Free(s) == pending[s].op = "idle"

Finish(s) == pending' = [pending EXCEPT ![s] = Idle]

PendingSignups == {s \in Slots : pending[s].op = "signup"}

(***************************************************************************)
(* POST /auth/signup and POST /auth/signin (auth.controller.ts,            *)
(* auth.service.ts).                                                       *)
(***************************************************************************)
(* getFieldFromError: the first of 'First name', 'Last name', 'Email',     *)
(* 'Password' the message includes                                         *)
getFieldFromError(error) ==
  CASE error \in {"First name is required",
                  "First name must be at least 2 characters long"}
         -> "firstName"
    [] error \in {"Last name is required",
                  "Last name must be at least 2 characters long"}
         -> "lastName"
    [] error = "Email is required" -> "email"
    [] error \in {"Password is required",
                  "Password must be at least 4 characters long",
                  "Password must contain at least one uppercase letter, one lowercase letter, and one number"}
         -> "password"
    [] OTHER -> "general"

ValidationFailure(errors) ==
  [success |-> FALSE, error |-> "Validation failed",
   errors |-> [i \in DOMAIN errors |->
                 [message |-> errors[i], field |-> getFieldFromError(errors[i])]]]

(* the catch block of signup: 409 when the message includes                *)
(* 'already exists', 500 otherwise                                         *)
signupCatch(message) ==
  IF message = "User with this email already exists"
  THEN [status |-> 409,
        body |-> FieldFailure("Registration failed", "Email already in use",
                              "email")]
  ELSE [status |-> 500, body |-> GeneralFailure("Failed to create user")]

(* POST /auth/signup up to the await of User.findOne in                    *)
(* AuthService.register                                                    *)
SignupCheck(s, body) ==
  /\ Free(s)
  /\ LET validation == validateRegistration(body)
         data == validation.sanitizedData
         req == Req("POST", <<Lit("auth"), Lit("signup")>>, body)
     IN IF ~validation.isValid
        THEN /\ last' = Step("signup", req, NoUser, 400,
                             ValidationFailure(validation.errors))
             /\ UNCHANGED pending
        ELSE IF UserIdsByEmail(data.email) # {}
        THEN /\ LET c == signupCatch("User with this email already exists")
                IN last' = Step("signup", req, NoUser, c.status, c.body)
             /\ UNCHANGED pending
        ELSE /\ nextUserId + Cardinality(PendingSignups) <= MaxUsers
             /\ pending' = [pending EXCEPT ![s] =
                              [op |-> "signup", data |-> data,
                               surgeryDate |-> body.surgeryDate]]
             /\ last' = Step("signupCheck", req, NoUser, 0, NoBody)
  /\ UNCHANGED <<stores, now>>

(* a register that passes the request's surgeryDate to new User *)
registeredSurgeryDate_Supplied(supplied) == supplied

(* the surgeryDate of the document AuthService.register constructs: it     *)
(* passes email, password, firstName and lastName to new User, so the      *)
(* schema default applies whatever the request supplied                    *)
registeredSurgeryDate(supplied) == NullDate

(* the rest of AuthService.register: new User, user.save() (validators,    *)
(* pre-save hash, insert under the unique email index), generateToken,     *)
(* and the 201 response of signup                                          *)
SignupSave(s, salt) ==
  /\ pending[s].op = "signup"
  /\ LET req == Req("POST", <<Lit("auth"), Lit("signup")>>, pending[s].data)
         doc == userSchemaSet(pending[s].data)
     IN IF ~userSchemaValid(doc)
        THEN /\ LET c == signupCatch("User validation failed")
                IN last' = Step("signupSave", req, NoUser, c.status, c.body)
             /\ UNCHANGED <<users, nextUserId>>
        ELSE IF UserIdsByEmail(doc.email) # {}
        THEN /\ LET c == signupCatch("E11000 duplicate key error collection")
                IN last' = Step("signupSave", req, NoUser, c.status, c.body)
             /\ UNCHANGED <<users, nextUserId>>
        ELSE LET id == nextUserId
                 user == [firstName |-> doc.firstName,
                          lastName |-> doc.lastName,
                          email |-> doc.email,
                          password |->
                            preSavePassword(TRUE, <<>>, doc.password, salt),
                          surgeryDate |->
                            registeredSurgeryDate(pending[s].surgeryDate),
                          isActive |-> TRUE,
                          createdAt |-> now]
             IN /\ users' = (id :> user) @@ users
                /\ nextUserId' = nextUserId + 1
                /\ last' = Step("signupSave", req, id, 201,
                     [success |-> TRUE,
                      data |-> [user |-> [id |-> id,
                                          firstName |-> doc.firstName,
                                          lastName |-> doc.lastName,
                                          email |-> doc.email,
                                          surgeryDate |-> pending[s].surgeryDate,
                                          recoveryDay |-> 0],
                                token |-> generateToken(id, doc.email, now)],
                      message |-> "User created successfully"])
  /\ Finish(s)
  /\ UNCHANGED <<entries, nextEntryId, progress, nextProgId, now>>

(* AuthService.login without the comparePassword branch *)
login_NoPasswordCheck(credentials) ==
  LET found == UserIdsByEmail(credentials.email)
  IN IF found = {}
     THEN [ok |-> FALSE, message |-> "Invalid email or password"]
     ELSE LET id == CHOOSE u \in found : TRUE
          IN [ok |-> TRUE, id |-> id,
              token |-> generateToken(id, users[id].email, now)]

(* AuthService.login *)
login(credentials) ==
  LET found == UserIdsByEmail(credentials.email)
  IN IF found = {}
     THEN [ok |-> FALSE, message |-> "Invalid email or password"]
     ELSE LET id == CHOOSE u \in found : TRUE
          IN IF ~comparePassword(users[id], credentials.password)
             THEN [ok |-> FALSE, message |-> "Invalid email or password"]
             ELSE [ok |-> TRUE, id |-> id,
                   token |-> generateToken(id, users[id].email, now)]

(* the catch block of signin: every Error becomes the same 400 *)
signinCatch(message) ==
  [status |-> 400,
   body |-> FieldFailure("Authentication failed", "Invalid email or password",
                         "credentials")]

(* POST /auth/signin *)
Signin(body) ==
  /\ LET validation == validateLogin(body)
         req == Req("POST", <<Lit("auth"), Lit("signin")>>, body)
     IN IF ~validation.isValid
        THEN last' = Step("signin", req, NoUser, 400,
                          ValidationFailure(validation.errors))
        ELSE LET r == login(validation.sanitizedData)
             IN IF ~r.ok
                THEN LET c == signinCatch(r.message)
                     IN last' = Step("signin", req, NoUser,
                                     c.status, c.body)
                ELSE last' = Step("signin", req, r.id, 200,
                          [success |-> TRUE,
                           data |-> [user |-> [id |-> r.id,
                                       firstName |-> users[r.id].firstName,
                                       lastName |-> users[r.id].lastName,
                                       email |-> users[r.id].email,
                                       surgeryDate |-> NullDate,
                                       recoveryDay |-> 0],
                                     token |-> r.token],
                           message |-> "User signed in successfully"])
  /\ UNCHANGED <<stores, now, pending>>

(* a call of AuthService.verifyToken *)
VerifyToken(token) ==
  /\ last' = Step("verifyToken", [token |-> token], NoUser, 0,
                  verifyToken(token))
  /\ UNCHANGED <<stores, now, pending>>

(* the clock, one unit at a time *)
Advance ==
  /\ now < MaxTime
  /\ now' = now + 1
  /\ last' = Step("advance", NoBody, NoUser, 0, NoBody)
  /\ UNCHANGED <<stores, pending>>

(* the clock *)
Tick ==
  /\ now + TokenTTL <= MaxTime
  /\ now' = now + TokenTTL
  /\ last' = Step("tick", NoBody, NoUser, 0, NoBody)
  /\ UNCHANGED <<stores, pending>>

(***************************************************************************)
(* Routing (app.ts and the four routers).  A path is the sequence of its   *)
(* segments after /api/v1; a segment is a literal or a 24-hex ObjectId.    *)
(* Express takes the first registered route whose method and pattern       *)
(* match; a :param segment matches any segment.                            *)
(***************************************************************************)
IsObjectId(seg) == "oid" \in DOMAIN seg

Route(method, path, auth, handler) ==
  [method |-> method, path |-> path, auth |-> auth, handler |-> handler]

Routes ==
  << Route("POST", <<Lit("auth"), Lit("signup")>>, FALSE, "signup"),
     Route("POST", <<Lit("auth"), Lit("signin")>>, FALSE, "signin"),
     Route("GET", <<Lit("auth"), Lit("me")>>, TRUE, "getProfile"),
     Route("PATCH", <<Lit("auth"), Lit("surgery-date")>>, TRUE,
           "updateSurgeryDate"),
     Route("PATCH", <<Lit("auth"), Lit("profile")>>, TRUE, "updateProfile"),
     Route("PATCH", <<Lit("auth"), Lit("change-password")>>, TRUE,
           "changePassword"),
     Route("GET", <<Lit("users")>>, TRUE, "getAllUsers"),
     Route("GET", <<Lit("users"), Param("userId")>>, TRUE, "getUserById"),
     Route("GET", <<Lit("brochures"), Lit("myomectomy")>>, FALSE,
           "getBrochureContent"),
     Route("GET", <<Lit("brochures"), Lit("sections"), Param("sectionId")>>,
           FALSE, "getBrochureSection"),
     Route("POST", <<Lit("brochures"), Lit("progress")>>, TRUE,
           "updateProgress"),
     Route("GET", <<Lit("brochures"), Lit("progress")>>, TRUE,
           "getUserProgress"),
     Route("DELETE", <<Lit("brochures"), Lit("progress"), Lit("reset")>>,
           TRUE, "resetProgress"),
     Route("POST", <<Lit("tracker")>>, TRUE, "createSymptomEntry"),
     Route("GET", <<Lit("tracker")>>, TRUE, "getUserSymptomEntries"),
     Route("PUT", <<Lit("tracker"), Param("id")>>, TRUE, "updateSymptomEntry"),
     Route("DELETE", <<Lit("tracker"), Param("id")>>, TRUE,
           "deleteSymptomEntry"),
     Route("DELETE", <<Lit("tracker"), Lit("clear")>>, TRUE,
           "clearUserSymptomEntries") >>

PathMatches(pattern, path) ==
  /\ Len(pattern) = Len(path)
  /\ \A i \in DOMAIN pattern :
       "param" \in DOMAIN pattern[i] \/ pattern[i] = path[i]

(* the tracker router runs authenticateToken before any of its routes *)
UnderRouterGate(path) == path # <<>> /\ path[1] = Lit("tracker")

Dispatch(method, path) ==
  LET matching == {i \in DOMAIN Routes :
                     /\ Routes[i].method = method
                     /\ PathMatches(Routes[i].path, path)}
  IN IF matching = {}
     THEN Route(method, path, UnderRouterGate(path), "notFound")
     ELSE Routes[CHOOSE i \in matching : \A j \in matching : i <= j]

(***************************************************************************)
(* authenticateToken (auth.middleware.ts).                                 *)
(***************************************************************************)
GateFailure(status, error) ==
  [status |-> status, user |-> NoUser,
   body |-> [success |-> FALSE, error |-> error]]

authenticateToken(token) ==
  IF token.kind = "absent" THEN GateFailure(401, "Access token required")
  ELSE LET err == jwtVerify(token)
       IN IF err # "ok"
          THEN IF InstanceOfJsonWebTokenError(err)
               THEN GateFailure(401, "Invalid token")
               ELSE GateFailure(500, "Authentication failed")
          ELSE IF token.userId \notin DOMAIN users
               THEN GateFailure(401, "User not found")
               ELSE [status |-> 0, user |-> token.userId, body |-> NoBody]

PendingOps(op) == {s \in Slots : pending[s].op = op}

(* keeps the identifiers the handlers allocate within the bounds *)
WithinBounds(handler) ==
  /\ handler = "createSymptomEntry" =>
       nextEntryId + Cardinality(PendingOps(handler)) <= MaxEntries
  /\ handler = "updateProgress" =>
       nextProgId + Cardinality(PendingOps(handler)) <= MaxProgress

(* a request to a protected route, or to no route at all, up to the call   *)
(* of next() in authenticateToken                                          *)
Request(s, token, req) ==
  /\ Free(s)
  /\ LET route == Dispatch(req.method, req.path)
         gate == authenticateToken(token)
         seen == [token |-> token] @@ req
     IN /\ route.auth \/ route.handler = "notFound"
        /\ IF route.auth /\ gate.status # 0
           THEN /\ last' = Step("authenticateToken", seen, NoUser,
                                gate.status, gate.body)
                /\ UNCHANGED pending
           ELSE IF route.handler = "notFound"
           THEN /\ last' = Step("notFound", seen, gate.user, 404, NoBody)
                /\ UNCHANGED pending
           ELSE /\ WithinBounds(route.handler)
                /\ pending' = [pending EXCEPT ![s] =
                                 [op |-> route.handler, user |-> gate.user,
                                  req |-> req]]
                /\ last' = Step("authenticateToken", seen, gate.user, 0,
                                NoBody)
  /\ UNCHANGED <<stores, now>>

Has(body, field) == field \in DOMAIN body

(* body.field || '' *)
OrEmpty(body, field) == IF Has(body, field) THEN body[field] ELSE ""

Restrict(f, keep) == [k \in keep |-> f[k]]

(***************************************************************************)
(* Symptom diary (symptom-entry.controller.ts, symptom-entry.service.ts,   *)
(* symptom-entry.model.ts).                                                *)
(***************************************************************************)
PainLevelMin == 0
PainLevelMax == 10

(* the validators a save runs: date required, painLevel required, min, max *)
(* the validators with max taken as an exclusive bound *)
symptomEntrySchemaValid_ExclusiveMax(doc) ==
  /\ doc.date # ""
  /\ Has(doc, "painLevel")
  /\ doc.painLevel >= PainLevelMin
  /\ doc.painLevel < PainLevelMax

symptomEntrySchemaValid(doc) ==
  /\ doc.date # ""
  /\ Has(doc, "painLevel")
  /\ doc.painLevel >= PainLevelMin
  /\ doc.painLevel <= PainLevelMax

EntryDoc(id) == [id |-> id] @@ entries[id]

(* the filter { _id: entryId } without the owner *)
OwnedEntry_AnyOwner(id, userId) == id \in DOMAIN entries

(* the filter { _id: entryId, userId } *)
OwnedEntry(id, userId) == id \in DOMAIN entries /\ entries[id].userId = userId

ServiceFailure(message) == [success |-> FALSE, message |-> message]

CreateSymptomEntry(s) ==
  /\ pending[s].op = "createSymptomEntry"
  /\ LET req == pending[s].req
         body == req.body
         userId == pending[s].user
         entryData == [date |-> OrEmpty(body, "date"),
                       location |-> OrEmpty(body, "location"),
                       description |-> OrEmpty(body, "description"),
                       medications |-> OrEmpty(body, "medications")]
                      @@ (IF Has(body, "painLevel")
                          THEN [painLevel |-> body.painLevel] ELSE <<>>)
         id == nextEntryId
         doc == [userId |-> userId, timestamp |-> now, updatedAt |-> now]
                @@ entryData
     IN IF ~symptomEntrySchemaValid(entryData)
        THEN /\ last' = Step("createSymptomEntry", req, userId, 400,
                          ServiceFailure("Failed to create symptom entry"))
             /\ UNCHANGED <<entries, nextEntryId>>
        ELSE /\ entries' = (id :> doc) @@ entries
             /\ nextEntryId' = nextEntryId + 1
             /\ last' = Step("createSymptomEntry", req, userId, 201,
                          [success |-> TRUE, data |-> [id |-> id] @@ doc,
                           message |-> "Symptom entry created successfully"])
  /\ Finish(s)
  /\ UNCHANGED <<users, nextUserId, progress, nextProgId, now>>

(* find({ userId }).sort({ updatedAt: -1 }) *)
SortedByUpdatedAtDesc(ids) ==
  {order \in [1..Cardinality(ids) -> ids] :
     /\ \A i, j \in DOMAIN order : i # j => order[i] # order[j]
     /\ \A i, j \in DOMAIN order :
          i < j => entries[order[i]].updatedAt >= entries[order[j]].updatedAt}

(* find({ userId }).sort({ timestamp: -1 }): the order of entries with     *)
(* equal timestamps is the store's choice                                  *)
SortedByTimestampDesc(ids) ==
  {order \in [1..Cardinality(ids) -> ids] :
     /\ \A i, j \in DOMAIN order : i # j => order[i] # order[j]
     /\ \A i, j \in DOMAIN order :
          i < j => entries[order[i]].timestamp >= entries[order[j]].timestamp}

GetUserSymptomEntries(s) ==
  /\ pending[s].op = "getUserSymptomEntries"
  /\ LET userId == pending[s].user
         ids == {e \in DOMAIN entries : entries[e].userId = userId}
     IN \E order \in SortedByTimestampDesc(ids) :
          last' = Step("getUserSymptomEntries", pending[s].req, userId,
                       200,
                       [success |-> TRUE,
                        data |-> [i \in DOMAIN order |-> EntryDoc(order[i])],
                        message |-> "Symptom entries retrieved successfully"])
  /\ Finish(s)
  /\ UNCHANGED <<stores, now>>

(* the whole body handed to the service as the update *)
updateDataOf_WholeBody(body) == body

(* the fields updateSymptomEntry copies from the body *)
updateDataOf(body) ==
  (IF Has(body, "date") /\ body.date # "" THEN [date |-> body.date] ELSE <<>>)
  @@ Restrict(body, DOMAIN body \cap
                {"painLevel", "location", "description", "medications"})

(* findOneAndUpdate({ _id, userId }, updateData, { new: true }): update    *)
(* validators are off unless runValidators is set; the schema option       *)
(* timestamps: true makes every update set updatedAt                       *)
UpdateSymptomEntry(s) ==
  /\ pending[s].op = "updateSymptomEntry"
  /\ LET req == pending[s].req
         body == req.body
         userId == pending[s].user
         entryId == pending[s].req.path[2]
         updateData == updateDataOf(body)
     IN IF ~IsObjectId(entryId)
        THEN /\ last' = Step("updateSymptomEntry", req, userId, 404,
                          ServiceFailure("Failed to update symptom entry"))
             /\ UNCHANGED entries
        ELSE IF ~OwnedEntry(entryId.oid, userId)
        THEN /\ last' = Step("updateSymptomEntry", req, userId, 404,
                          ServiceFailure("Symptom entry not found"))
             /\ UNCHANGED entries
        ELSE LET doc == [updatedAt |-> now] @@ updateData @@ entries[entryId.oid]
             IN /\ entries' = [entries EXCEPT ![entryId.oid] = doc]
                /\ last' = Step("updateSymptomEntry", req, userId, 200,
                     [success |-> TRUE, data |-> [id |-> entryId.oid] @@ doc,
                      message |-> "Symptom entry updated successfully"])
  /\ Finish(s)
  /\ UNCHANGED <<users, nextUserId, nextEntryId, progress, nextProgId, now>>

DeleteSymptomEntry(s) ==
  /\ pending[s].op = "deleteSymptomEntry"
  /\ LET userId == pending[s].user
         entryId == pending[s].req.path[2]
         req == pending[s].req
     IN IF ~IsObjectId(entryId)
        THEN /\ last' = Step("deleteSymptomEntry", req, userId, 404,
                          ServiceFailure("Failed to delete symptom entry"))
             /\ UNCHANGED entries
        ELSE IF ~OwnedEntry(entryId.oid, userId)
        THEN /\ last' = Step("deleteSymptomEntry", req, userId, 404,
                          ServiceFailure("Symptom entry not found"))
             /\ UNCHANGED entries
        ELSE /\ entries' = Restrict(entries, DOMAIN entries \ {entryId.oid})
             /\ last' = Step("deleteSymptomEntry", req, userId, 200,
                          [success |-> TRUE,
                           message |-> "Symptom entry deleted successfully"])
  /\ Finish(s)
  /\ UNCHANGED <<users, nextUserId, nextEntryId, progress, nextProgId, now>>

ClearUserSymptomEntries(s) ==
  /\ pending[s].op = "clearUserSymptomEntries"
  /\ LET userId == pending[s].user
     IN /\ entries' = Restrict(entries, {e \in DOMAIN entries :
                                           entries[e].userId # userId})
        /\ last' = Step("clearUserSymptomEntries", pending[s].req, userId,
                        200,
                        [success |-> TRUE,
                         message |-> "All symptom entries cleared successfully"])
  /\ Finish(s)
  /\ UNCHANGED <<users, nextUserId, nextEntryId, progress, nextProgId, now>>

(***************************************************************************)
(* Brochure progress (brochure.controller.ts, brochure-progress.service.ts,*)
(* brochure-progress.model.ts).  The store is a collection of documents,   *)
(* each with its own _id.                                                  *)
(***************************************************************************)
(* the filter { userId, sectionId } without the item *)
ProgressIds_AnyItem(store, userId, sectionId, itemId) ==
  {p \in DOMAIN store : /\ store[p].userId = userId
                        /\ store[p].sectionId = sectionId}

ProgressIds(store, userId, sectionId, itemId) ==
  {p \in DOMAIN store : /\ store[p].userId = userId
                        /\ store[p].sectionId = sectionId
                        /\ store[p].itemId = itemId}

(* an insert of the document whether or not the filter matches *)
findOneAndUpsert_AlwaysInsert(store, newId, userId, sectionId, itemId, update) ==
  [id |-> newId, inserted |-> TRUE,
   store |-> (newId :> (update @@ [userId |-> userId,
                                   sectionId |-> sectionId,
                                   itemId |-> itemId,
                                   completed |-> FALSE,
                                   notes |-> ""])) @@ store]

(* findOneAndUpdate(filter, update, { upsert: true, new: true }): the      *)
(* store after the call and the _id of the document written.  A notes      *)
(* value of undefined is dropped from the update.                          *)
findOneAndUpsert(store, newId, userId, sectionId, itemId, update) ==
  LET found == ProgressIds(store, userId, sectionId, itemId)
  IN IF found # {}
     THEN LET id == CHOOSE p \in found : TRUE
          IN [id |-> id, inserted |-> FALSE,
              store |-> [store EXCEPT ![id] = update @@ store[id]]]
     ELSE [id |-> newId, inserted |-> TRUE,
           store |-> (newId :> (update @@ [userId |-> userId,
                                           sectionId |-> sectionId,
                                           itemId |-> itemId,
                                           completed |-> FALSE,
                                           notes |-> ""])) @@ store]

UpdateProgress(s) ==
  /\ pending[s].op = "updateProgress"
  /\ LET req == pending[s].req
         body == req.body
         userId == pending[s].user
     IN IF \/ OrEmpty(body, "sectionId") = ""
           \/ OrEmpty(body, "itemId") = ""
           \/ ~Has(body, "completed")
        THEN /\ last' = Step("updateProgress", req, userId, 400,
                  [success |-> FALSE,
                   error |-> "Missing required fields: sectionId, itemId, completed"])
             /\ UNCHANGED <<progress, nextProgId>>
        ELSE LET update == [completed |-> body.completed, updatedAt |-> now]
                           @@ Restrict(body, DOMAIN body \cap {"notes"})
                 r == findOneAndUpsert(progress, nextProgId, userId,
                                       body.sectionId, body.itemId, update)
             IN /\ progress' = r.store
                /\ nextProgId' = IF r.inserted THEN nextProgId + 1
                                 ELSE nextProgId
                /\ last' = Step("updateProgress", req, userId, 200,
                     [success |-> TRUE,
                      data |-> [id |-> r.id] @@ r.store[r.id],
                      message |-> "Progress updated successfully"])
  /\ Finish(s)
  /\ UNCHANGED <<users, nextUserId, entries, nextEntryId, now>>

GetUserProgress(s) ==
  /\ pending[s].op = "getUserProgress"
  /\ LET userId == pending[s].user
     IN last' = Step("getUserProgress", pending[s].req, userId, 200,
                  [success |-> TRUE,
                   data |-> {[id |-> p] @@ progress[p] :
                                p \in {q \in DOMAIN progress :
                                         progress[q].userId = userId}},
                   message |-> "Progress retrieved successfully"])
  /\ Finish(s)
  /\ UNCHANGED <<stores, now>>

(* a delete of the user's completed records only *)
deleteManyByUser_Completed(store, userId) ==
  Restrict(store, {p \in DOMAIN store :
                     store[p].userId # userId \/ ~store[p].completed})

(* BrochureProgress.deleteMany({}) *)
deleteManyByUser_AllUsers(store, userId) == Restrict(store, {})

(* BrochureProgress.deleteMany({ userId }) *)
deleteManyByUser(store, userId) ==
  Restrict(store, {p \in DOMAIN store : store[p].userId # userId})

ResetProgress(s) ==
  /\ pending[s].op = "resetProgress"
  /\ LET userId == pending[s].user
     IN /\ progress' = deleteManyByUser(progress, userId)
        /\ last' = Step("resetProgress", pending[s].req, userId, 200,
                        [success |-> TRUE,
                         message |-> "Progress reset successfully"])
  /\ Finish(s)
  /\ UNCHANGED <<users, nextUserId, entries, nextEntryId, nextProgId, now>>

(***************************************************************************)
(* Brochure sections (brochure.controller.ts getBrochureSections over      *)
(* brochure.data.ts).  A section is its id, its title and the number of    *)
(* its content blocks; query parameters arrive as strings.                 *)
(***************************************************************************)
(* Math.ceil(a / b) for b > 0 *)
CeilDiv(a, b) == -((-a) \div b)

brochureContent ==
  <<
     [id |-> "activity-restrictions",
      title |->
        <<"A", "c", "t", "i", "v", "i", "t", "y", " ", "R", "e", "s", "t",
        "r", "i", "c", "t", "i", "o", "n", "s">>,
      contentCount |-> 3],
     [id |-> "pain-management",
      title |->
        <<"P", "a", "i", "n", " ", "M", "a", "n", "a", "g", "e", "m", "e",
        "n", "t">>,
      contentCount |-> 2],
     [id |-> "warning-signs",
      title |->
        <<"W", "a", "r", "n", "i", "n", "g", " ", "S", "i", "g", "n", "s",
        "/", "S", "y", "m", "p", "t", "o", "m", "s">>,
      contentCount |-> 1],
     [id |-> "follow-up-schedule",
      title |->
        <<"F", "o", "l", "l", "o", "w", "-", "u", "p", " ", "S", "c", "h",
        "e", "d", "u", "l", "e">>,
      contentCount |-> 2],
     [id |-> "healing-timeline",
      title |->
        <<"G", "e", "n", "e", "r", "a", "l", " ", "H", "e", "a", "l", "i",
        "n", "g", " ", "T", "i", "m", "e", "l", "i", "n", "e">>,
      contentCount |-> 3],
     [id |-> "incision-care",
      title |->
        <<"I", "n", "c", "i", "s", "i", "o", "n", " ", "C", "a", "r",
        "e">>,
      contentCount |-> 2],
     [id |-> "diet-medications",
      title |->
        <<"D", "i", "e", "t", " ", "&", " ", "M", "e", "d", "i", "c", "a",
        "t", "i", "o", "n", "s">>,
      contentCount |-> 2]
  >>

DigitValue(c) ==
  CASE c = "0" -> 0 [] c = "1" -> 1 [] c = "2" -> 2 [] c = "3" -> 3
    [] c = "4" -> 4 [] c = "5" -> 5 [] c = "6" -> 6 [] c = "7" -> 7
    [] c = "8" -> 8 [] c = "9" -> 9

(* parseInt of a string of decimal digits *)
RECURSIVE parseInt(_)
parseInt(str) ==
  IF str = <<>> THEN 0
  ELSE 10 * parseInt(SubSeq(str, 1, Len(str) - 1)) + DigitValue(str[Len(str)])

(* String.prototype.includes *)
includes(str, sub) ==
  \E i \in 0..(Len(str) - Len(sub)) : SubSeq(str, i + 1, i + Len(sub)) = sub

(* Array.prototype.slice(start, end) for 0 <= start <= end *)
slice(arr, start, end) ==
  SubSeq(arr, start + 1, IF end < Len(arr) THEN end ELSE Len(arr))

MaxLimit == 50

(* parseInt(limit) taken as it comes *)
limitOf_Uncapped(limit) == parseInt(limit)

(* Math.min(parseInt(limit), 50) *)
limitOf(limit) ==
  IF parseInt(limit) < MaxLimit THEN parseInt(limit) ELSE MaxLimit

(* the 200 response of getBrochureSections; page defaults to 1, limit to   *)
(* 10 and search to the empty string                                       *)
getBrochureSections(query) ==
  LET page == IF Has(query, "page") THEN query.page ELSE <<"1">>
      limit == IF Has(query, "limit") THEN query.limit ELSE <<"1", "0">>
      search == IF Has(query, "search") THEN query.search ELSE <<>>
      matches(section) ==
        includes(toLowerCase(section.title), toLowerCase(search))
      filteredSections == IF search # <<>>
                          THEN SelectSeq(brochureContent, matches)
                          ELSE brochureContent
      pageNum == parseInt(page)
      limitNum == limitOf(limit)
      totalDocs == Len(filteredSections)
      totalPages == CeilDiv(totalDocs, limitNum)
      startIndex == (pageNum - 1) * limitNum
      endIndex == startIndex + limitNum
      docs == slice(filteredSections, startIndex, endIndex)
  IN [success |-> TRUE,
      data |-> [docs |-> docs,
                totalDocs |-> totalDocs,
                limit |-> limitNum,
                totalPages |-> totalPages,
                page |-> pageNum,
                pagingCounter |-> startIndex + 1,
                hasPrevPage |-> pageNum > 1,
                hasNextPage |-> pageNum < totalPages],
      message |-> "Brochure sections retrieved successfully"]

(* a call of the handler; no router mounts it *)
GetBrochureSections(query) ==
  /\ last' = Step("getBrochureSections", [query |-> query], NoUser, 200,
                  getBrochureSections(query))
  /\ UNCHANGED <<stores, now, pending>>

(***************************************************************************)
(* Profile handlers (auth.controller.ts), UserService.updateUser,          *)
(* AuthService.changePassword and the user routes (user.controller.ts).    *)
(***************************************************************************)
InvalidDate == -2

(* date > today taken a day late *)
IsFutureDate_AfterTomorrow(date, today) == date > today + Day

(* date > today, with today = new Date() *)
IsFutureDate(date, today) == date > today

calculateRecoveryDay(user, t) ==
  IF user.surgeryDate = NullDate THEN 0
  ELSE LET diffDays == CeilDiv(t - user.surgeryDate, Day)
       IN IF diffDays > 0 THEN diffDays ELSE 0

UserResponse(store, id, t) ==
  [id |-> id, firstName |-> store[id].firstName,
   lastName |-> store[id].lastName, email |-> store[id].email,
   surgeryDate |-> store[id].surgeryDate,
   recoveryDay |-> calculateRecoveryDay(store[id], t)]

UserNotFound(status) ==
  [status |-> status,
   body |-> FieldFailure("User not found", "User account not found", "user")]

GetProfile(s) ==
  /\ pending[s].op = "getProfile"
  /\ LET userId == pending[s].user
     IN IF userId \notin DOMAIN users
        THEN last' = Step("getProfile", pending[s].req, userId,
                          UserNotFound(401).status, UserNotFound(401).body)
        ELSE last' = Step("getProfile", pending[s].req, userId, 200,
                  [success |-> TRUE,
                   data |-> [user |-> UserResponse(users, userId, now)],
                   message |-> "User profile retrieved successfully"])
  /\ Finish(s)
  /\ UNCHANGED <<stores, now>>

(* UserService.updateUser: throws when the user is gone or when save()     *)
(* rejects a modified path                                                 *)
updateUser(userId, updateData) ==
  IF userId \notin DOMAIN users
  THEN [ok |-> FALSE, message |-> "User not found"]
  ELSE LET doc == updateData @@ users[userId]
       IN IF ~userSchemaValid(updateData)
          THEN [ok |-> FALSE, message |-> "User validation failed"]
          ELSE [ok |-> TRUE, store |-> [users EXCEPT ![userId] = doc]]

UpdateSurgeryDate(s) ==
  /\ pending[s].op = "updateSurgeryDate"
  /\ LET req == pending[s].req
         body == req.body
         userId == pending[s].user
         surgeryDate == IF Has(body, "surgeryDate") THEN body.surgeryDate
                        ELSE NullDate
         r == updateUser(userId, [surgeryDate |-> surgeryDate])
         fail(message) ==
           /\ last' = Step("updateSurgeryDate", req, userId, 400,
                           FieldFailure("Validation failed", message,
                                        "surgeryDate"))
           /\ UNCHANGED users
     IN IF surgeryDate = NullDate THEN fail("Surgery date is required")
        ELSE IF surgeryDate = InvalidDate THEN fail("Invalid date format")
        ELSE IF IsFutureDate(surgeryDate, now)
             THEN fail("Surgery date cannot be in the future")
        ELSE IF ~r.ok
             THEN /\ last' = Step("updateSurgeryDate", req, userId, 500,
                              GeneralFailure("Failed to update surgery date"))
                  /\ UNCHANGED users
        ELSE /\ users' = r.store
             /\ last' = Step("updateSurgeryDate", req, userId, 200,
                  [success |-> TRUE,
                   message |-> "Surgery date updated successfully",
                   data |-> [user |-> UserResponse(r.store, userId, now)]])
  /\ Finish(s)
  /\ UNCHANGED <<nextUserId, entries, nextEntryId, progress, nextProgId, now>>

UpdateProfile(s) ==
  /\ pending[s].op = "updateProfile"
  /\ LET req == pending[s].req
         body == req.body
         userId == pending[s].user
         firstName == IF Has(body, "firstName") THEN body.firstName ELSE <<>>
         lastName == IF Has(body, "lastName") THEN body.lastName ELSE <<>>
         r == updateUser(userId, [firstName |-> trim(firstName),
                                  lastName |-> trim(lastName)])
         fail(message, field) ==
           /\ last' = Step("updateProfile", req, userId, 400,
                           FieldFailure("Validation failed", message, field))
           /\ UNCHANGED users
     IN IF firstName = <<>> \/ lastName = <<>>
        THEN fail("First name and last name are required", "firstName")
        ELSE IF Len(firstName) < 2 \/ Len(firstName) > 30
        THEN fail("First name must be between 2 and 30 characters",
                  "firstName")
        ELSE IF Len(lastName) < 2 \/ Len(lastName) > 30
        THEN fail("Last name must be between 2 and 30 characters", "lastName")
        ELSE IF ~r.ok
             THEN /\ last' = Step("updateProfile", req, userId, 500,
                              GeneralFailure("Failed to update profile"))
                  /\ UNCHANGED users
        ELSE /\ users' = r.store
             /\ last' = Step("updateProfile", req, userId, 200,
                  [success |-> TRUE,
                   message |-> "Profile updated successfully",
                   data |-> [user |-> UserResponse(r.store, userId, now)]])
  /\ Finish(s)
  /\ UNCHANGED <<nextUserId, entries, nextEntryId, progress, nextProgId, now>>

ChangePasswordMinLength == 8

(* AuthService.changePassword: the error it throws, or the stored          *)
(* password after user.save()                                              *)
authChangePassword(userId, currentPassword, newPassword, salt) ==
  IF userId \notin DOMAIN users
  THEN [ok |-> FALSE, message |-> "User not found"]
  ELSE IF ~comparePassword(users[userId], currentPassword)
  THEN [ok |-> FALSE, message |-> "Current password is incorrect"]
  ELSE [ok |-> TRUE,
        password |-> preSavePassword(FALSE, users[userId].password,
                                     newPassword, salt)]

ChangePassword(s, salt) ==
  /\ pending[s].op = "changePassword"
  /\ LET req == pending[s].req
         body == req.body
         userId == pending[s].user
         currentPassword == IF Has(body, "currentPassword")
                            THEN body.currentPassword ELSE <<>>
         newPassword == IF Has(body, "newPassword") THEN body.newPassword
                        ELSE <<>>
         r == authChangePassword(userId, currentPassword, newPassword, salt)
         fail(message, field) ==
           /\ last' = Step("changePassword", req, userId, 400,
                           FieldFailure("Validation failed", message, field))
           /\ UNCHANGED users
     IN IF currentPassword = <<>> \/ newPassword = <<>>
        THEN fail("Current password and new password are required",
                  "password")
        ELSE IF Len(newPassword) < ChangePasswordMinLength
        THEN fail("New password must be at least 8 characters long",
                  "newPassword")
        ELSE IF currentPassword = newPassword
        THEN fail("New password must be different from current password",
                  "newPassword")
        ELSE IF ~r.ok
             THEN /\ last' = Step("changePassword", req, userId, 400,
                              FieldFailure("Password change failed",
                                           r.message, "password"))
                  /\ UNCHANGED users
        ELSE /\ users' = [users EXCEPT ![userId].password = r.password]
             /\ last' = Step("changePassword", req, userId, 200,
                  [success |-> TRUE,
                   message |-> "Password changed successfully"])
  /\ Finish(s)
  /\ UNCHANGED <<nextUserId, entries, nextEntryId, progress, nextProgId, now>>

(* GET /users with the default query: page 1 of 10, newest first *)
GetAllUsers(s) ==
  /\ pending[s].op = "getAllUsers"
  /\ last' = Step("getAllUsers", pending[s].req, pending[s].user, 200,
                  [success |-> TRUE,
                   data |-> [docs |-> {UserResponse(users, u, now) :
                                         u \in DOMAIN users},
                             totalDocs |-> Cardinality(DOMAIN users)],
                   message |-> "Users retrieved successfully"])
  /\ Finish(s)
  /\ UNCHANGED <<stores, now>>

GetUserById(s) ==
  /\ pending[s].op = "getUserById"
  /\ LET userId == pending[s].req.path[2]
         req == pending[s].req
     IN IF ~IsObjectId(userId)
        THEN last' = Step("getUserById", req, pending[s].user, 500,
                          [success |-> FALSE,
                           error |-> "Failed to retrieve user"])
        ELSE IF userId.oid \notin DOMAIN users
        THEN last' = Step("getUserById", req, pending[s].user, 404,
                          [success |-> FALSE, error |-> "User not found"])
        ELSE last' = Step("getUserById", req, pending[s].user, 200,
                  [success |-> TRUE,
                   data |-> [user |-> UserResponse(users, userId.oid, now)],
                   message |-> "User retrieved successfully"])
  /\ Finish(s)
  /\ UNCHANGED <<stores, now>>

(***************************************************************************)
(* UserService.deleteUser and deactivateUser (user.service.ts): service    *)
(* operations no route calls; they answer their caller, not an HTTP        *)
(* client.                                                                 *)
(***************************************************************************)
DeleteUser(userId) ==
  /\ userId \in DOMAIN users
  /\ users' = Restrict(users, DOMAIN users \ {userId})
  /\ last' = Step("deleteUser", NoBody, userId, 0, NoBody)
  /\ UNCHANGED <<nextUserId, entries, nextEntryId, progress, nextProgId,
                 now, pending>>

DeactivateUser(userId) ==
  /\ userId \in DOMAIN users
  /\ users' = [users EXCEPT ![userId].isActive = FALSE]
  /\ last' = Step("deactivateUser", NoBody, userId, 0, NoBody)
  /\ UNCHANGED <<nextUserId, entries, nextEntryId, progress, nextProgId,
                 now, pending>>

(***************************************************************************)
(* Store failures: the database call a handler awaits throws (connection   *)
(* lost, timeout).  The driver throws an Error whose message describes the *)
(* failure; the step that handles it carries the message as its fault.     *)
(***************************************************************************)
StoreError == "MongoNetworkError: connection closed"

Faulted(step) == [fault |-> StoreError] @@ step

(* what the catch block that receives the Error answers: the service's own *)
(* catch for the diary and the progress store, the controller's otherwise  *)
storeFailureResponse(handler, message) ==
  CASE handler = "signup" -> signupCatch(message)
    [] handler = "signin" -> signinCatch(message)
    [] handler = "getProfile" ->
         [status |-> 500, body |-> GeneralFailure("Failed to get user profile")]
    [] handler = "updateSurgeryDate" ->
         [status |-> 500,
          body |-> GeneralFailure("Failed to update surgery date")]
    [] handler = "updateProfile" ->
         [status |-> 500, body |-> GeneralFailure("Failed to update profile")]
    [] handler = "changePassword" ->
         [status |-> 400,
          body |-> FieldFailure("Password change failed", message, "password")]
    [] handler = "createSymptomEntry" ->
         [status |-> 400,
          body |-> ServiceFailure("Failed to create symptom entry")]
    [] handler = "getUserSymptomEntries" ->
         [status |-> 400,
          body |-> ServiceFailure("Failed to retrieve symptom entries")]
    [] handler = "updateSymptomEntry" ->
         [status |-> 404,
          body |-> ServiceFailure("Failed to update symptom entry")]
    [] handler = "deleteSymptomEntry" ->
         [status |-> 404,
          body |-> ServiceFailure("Failed to delete symptom entry")]
    [] handler = "updateProgress" ->
         [status |-> 500, body |-> ServiceFailure("Failed to update progress")]
    [] handler = "getUserProgress" ->
         [status |-> 500,
          body |-> ServiceFailure("Failed to retrieve progress")]
    [] handler = "resetProgress" ->
         [status |-> 500, body |-> ServiceFailure("Failed to reset progress")]
    [] handler = "getAllUsers" ->
         [status |-> 500,
          body |-> [success |-> FALSE, error |-> "Failed to retrieve users"]]
    [] handler = "getUserById" ->
         [status |-> 500,
          body |-> [success |-> FALSE, error |-> "Failed to retrieve user"]]

StoreHandlers ==
  {"getProfile", "updateSurgeryDate", "updateProfile", "changePassword",
   "createSymptomEntry", "getUserSymptomEntries", "updateSymptomEntry",
   "deleteSymptomEntry", "updateProgress", "getUserProgress", "resetProgress",
   "getAllUsers", "getUserById"}

(* the request in flight gets as far as a call of the store: it passes the *)
(* checks its handler makes first (input validation, the cast of an id,    *)
(* the validators of save)                                                 *)
ReachesStore(p) ==
  LET body == p.req.body
  IN CASE p.op = "updateSurgeryDate" ->
            /\ Has(body, "surgeryDate")
            /\ body.surgeryDate \notin {NullDate, InvalidDate}
            /\ ~IsFutureDate(body.surgeryDate, now)
       [] p.op = "updateProfile" ->
            /\ Has(body, "firstName") /\ Has(body, "lastName")
            /\ Len(body.firstName) >= 2 /\ Len(body.firstName) <= 30
            /\ Len(body.lastName) >= 2 /\ Len(body.lastName) <= 30
       [] p.op = "changePassword" ->
            /\ Has(body, "currentPassword") /\ Has(body, "newPassword")
            /\ body.currentPassword # <<>>
            /\ Len(body.newPassword) >= ChangePasswordMinLength
            /\ body.currentPassword # body.newPassword
       [] p.op = "createSymptomEntry" ->
            /\ Has(body, "date")
            /\ symptomEntrySchemaValid(body)
       [] p.op \in {"updateSymptomEntry", "deleteSymptomEntry",
                    "getUserById"} -> IsObjectId(p.req.path[2])
       [] p.op = "updateProgress" ->
            /\ OrEmpty(body, "sectionId") # ""
            /\ OrEmpty(body, "itemId") # ""
            /\ Has(body, "completed")
       [] OTHER -> TRUE

(* a handler past the gate whose store call throws *)
StoreFailure(s) ==
  /\ pending[s].op \in StoreHandlers
  /\ ReachesStore(pending[s])
  /\ LET r == storeFailureResponse(pending[s].op, StoreError)
     IN last' = Faulted(Step(pending[s].op, pending[s].req, pending[s].user,
                             r.status, r.body))
  /\ Finish(s)
  /\ UNCHANGED <<stores, now>>

(* POST /auth/signin when User.findOne in AuthService.login throws *)
SigninStoreFailure(body) ==
  /\ validateLogin(body).isValid
  /\ LET r == storeFailureResponse("signin", StoreError)
     IN last' = Faulted(Step("signin",
                             Req("POST", <<Lit("auth"), Lit("signin")>>, body),
                             NoUser, r.status, r.body))
  /\ UNCHANGED <<stores, now, pending>>

(* POST /auth/signup when User.findOne in AuthService.register throws *)
SignupStoreFailure(body) ==
  /\ validateRegistration(body).isValid
  /\ LET r == storeFailureResponse("signup", StoreError)
     IN last' = Faulted(Step("signup",
                             Req("POST", <<Lit("auth"), Lit("signup")>>, body),
                             NoUser, r.status, r.body))
  /\ UNCHANGED <<stores, now, pending>>

(* authenticateToken when User.findById throws: the Error is neither a     *)
(* JsonWebTokenError nor a TokenExpiredError                               *)
GateStoreFailure(token, req) ==
  /\ Dispatch(req.method, req.path).auth
  /\ token.kind # "absent"
  /\ jwtVerify(token) = "ok"
  /\ LET gate == GateFailure(500, "Authentication failed")
     IN last' = Faulted(Step("authenticateToken", [token |-> token] @@ req,
                             NoUser, gate.status, gate.body))
  /\ UNCHANGED <<stores, now, pending>>

(***************************************************************************)
(* Request inputs.                                                         *)
(***************************************************************************)
EmailA == <<"a", "@", "x", ".", "c", "o">>
EmailAUpper == <<"A", "@", "X", ".", "c", "o">>
EmailASpaced == <<" ", "a", "@", "x", ".", "c", "o", " ">>
EmailB == <<"b", "@", "x", ".", "c", "o">>
EmailNoAt == <<"a", "b">>
EmailShortTld == <<"a", "@", "x", ".", "c">>
Emails == {EmailA, EmailAUpper, EmailASpaced, EmailB, EmailNoAt,
           EmailShortTld, <<>>}

PwGood == <<"P", "a", "s", "s", "w", "0", "r", "d">>
PwOther == <<"P", "a", "s", "s", "w", "1", "r", "d">>
PwNoUpper == <<"p", "a", "s", "s", "w", "0", "r", "d">>
PwShort == <<"P", "a", "0">>
Passwords == {PwGood, PwOther, PwNoUpper, PwShort, <<>>}

NameOk == <<"S", "a">>
NameShort == <<"S">>
NameLong == [i \in 1..31 |-> "a"]
Names == {NameOk, NameShort, NameLong, <<>>}

BaseSignup ==
  [firstName |-> NameOk, lastName |-> NameOk, email |-> EmailA,
   password |-> PwGood, surgeryDate |-> NullDate]

SignupBodies ==
  {[BaseSignup EXCEPT !.email = e] : e \in Emails}
  \cup {[BaseSignup EXCEPT !.password = p] : p \in Passwords}
  \cup {[BaseSignup EXCEPT !.firstName = n] : n \in Names}
  \cup {[BaseSignup EXCEPT !.lastName = n] : n \in {NameShort, <<>>}}
  \cup {[BaseSignup EXCEPT !.firstName = NameShort, !.email = EmailNoAt,
                           !.password = PwShort]}

TwoSignups == {BaseSignup, [BaseSignup EXCEPT !.email = EmailB]}

SigninBodies ==
  {[email |-> e, password |-> p] : e \in Emails, p \in {PwGood, PwOther, <<>>}}

PasswordSignins ==
  {[email |-> EmailA, password |-> p] : p \in {PwGood, PwOther}}

EntryDate == "2024-01-15"
BaseEntry == [date |-> EntryDate, painLevel |-> 5]

CreateBodies ==
  {[BaseEntry EXCEPT !.painLevel = n] : n \in {-1, 0, 10, 11}}
  \cup {[date |-> EntryDate], [painLevel |-> 10]}

UpdateBodies ==
  {[painLevel |-> 11], [painLevel |-> 3, location |-> "back"]}

EntrySegments == {Oid(e) : e \in 1..MaxEntries} \cup {Lit("clear")}

TrackerRequests ==
  {Req("POST", <<Lit("tracker")>>, b) : b \in CreateBodies}
  \cup {Req("GET", <<Lit("tracker")>>, NoBody)}
  \cup {Req("PUT", <<Lit("tracker"), seg>>, b) :
          seg \in EntrySegments, b \in UpdateBodies}
  \cup {Req("DELETE", <<Lit("tracker"), seg>>, NoBody) : seg \in EntrySegments}

ProgressBodies ==
  {[sectionId |-> "s1", itemId |-> i, completed |-> c] :
     i \in {"i1", "i2"}, c \in BOOLEAN}
  \cup {[sectionId |-> "s1", itemId |-> "i1", completed |-> TRUE,
         notes |-> "done"],
        [sectionId |-> "s1", itemId |-> "i1"],
        [sectionId |-> "", itemId |-> "i1", completed |-> TRUE]}

ProgressRequests ==
  {Req("POST", <<Lit("brochures"), Lit("progress")>>, b) : b \in ProgressBodies}
  \cup {Req("GET", <<Lit("brochures"), Lit("progress")>>, NoBody),
        Req("DELETE", <<Lit("brochures"), Lit("progress"), Lit("reset")>>,
            NoBody)}

(* the new password is a plaintext or the string the account stores *)
PasswordRequests(u) ==
  {Req("PATCH", <<Lit("auth"), Lit("change-password")>>, b) :
     b \in {[currentPassword |-> c, newPassword |-> n] :
              c \in {PwGood, PwOther},
              n \in {PwGood, PwOther, PwNoUpper, PwShort,
                     users[u].password}}
           \cup {NoBody}}

(* one request per protected route, and two paths no route serves *)
RouteRequests ==
  {Req("POST", <<Lit("tracker")>>, BaseEntry),
   Req("GET", <<Lit("tracker")>>, NoBody),
   Req("PUT", <<Lit("tracker"), Oid(1)>>, [painLevel |-> 5]),
   Req("DELETE", <<Lit("tracker"), Oid(1)>>, NoBody),
   Req("DELETE", <<Lit("tracker"), Lit("clear")>>, NoBody),
   Req("POST", <<Lit("brochures"), Lit("progress")>>,
       [sectionId |-> "s1", itemId |-> "i1", completed |-> TRUE]),
   Req("GET", <<Lit("brochures"), Lit("progress")>>, NoBody),
   Req("DELETE", <<Lit("brochures"), Lit("progress"), Lit("reset")>>, NoBody),
   Req("GET", <<Lit("auth"), Lit("me")>>, NoBody),
   Req("PATCH", <<Lit("auth"), Lit("surgery-date")>>, [surgeryDate |-> 0]),
   Req("PATCH", <<Lit("auth"), Lit("profile")>>,
       [firstName |-> NameOk, lastName |-> NameOk]),
   Req("PATCH", <<Lit("auth"), Lit("change-password")>>,
       [currentPassword |-> PwGood, newPassword |-> PwShort]),
   Req("GET", <<Lit("users")>>, NoBody),
   Req("GET", <<Lit("users"), Oid(1)>>, NoBody),
   Req("GET", <<Lit("tracker"), Lit("clear")>>, NoBody),
   Req("GET", <<Lit("brochures"), Lit("sections")>>, NoBody)}

(***************************************************************************)
(* Specifications.  Spec is the whole service with one account, one        *)
(* request per route and one request in flight; the others take one part   *)
(* of the service with the inputs and the concurrency its properties are   *)
(* about.  The diary and the progress store are explored from the state    *)
(* in which two accounts have signed up.                                   *)
(***************************************************************************)
Next ==
  \/ SignupCheck(1, BaseSignup)
  \/ SignupSave(1, "0")
  \/ Signin([email |-> EmailA, password |-> PwGood])
  \/ \E token \in ClientTokens, req \in RouteRequests : Request(1, token, req)
  \/ CreateSymptomEntry(1)
  \/ GetUserSymptomEntries(1)
  \/ UpdateSymptomEntry(1)
  \/ DeleteSymptomEntry(1)
  \/ UpdateProgress(1)
  \/ GetUserProgress(1)
  \/ ResetProgress(1)
  \/ GetProfile(1)
  \/ UpdateSurgeryDate(1)
  \/ UpdateProfile(1)
  \/ ChangePassword(1, "0")
  \/ GetAllUsers(1)
  \/ GetUserById(1)
  \/ Tick

Spec == Init /\ [][Next]_vars

NextSignup ==
  \/ \E s \in Slots, body \in SignupBodies : SignupCheck(s, body)
  \/ \E s \in Slots : SignupSave(s, "0")
  \/ \E body \in SigninBodies : Signin(body)

SpecSignup == Init /\ [][NextSignup]_vars

NextPassword ==
  \/ \E body \in TwoSignups : SignupCheck(1, body)
  \/ \E salt \in Salts : SignupSave(1, salt)
  \/ \E body \in PasswordSignins : Signin(body)
  \/ \E token \in FreshTokens :
       \E req \in PasswordRequests(token.userId) : Request(1, token, req)
  \/ \E salt \in Salts : ChangePassword(1, salt)

SpecPassword == Init /\ [][NextPassword]_vars

TwoUsers ==
  [u \in {1, 2} |->
     [firstName |-> NameOk, lastName |-> NameOk,
      email |-> IF u = 1 THEN EmailA ELSE EmailB,
      password |-> bcryptHash(PwGood, "0"),
      surgeryDate |-> NullDate, isActive |-> TRUE, createdAt |-> 0]]

InitTwoUsers ==
  /\ users = TwoUsers
  /\ nextUserId = 3
  /\ entries = <<>>
  /\ nextEntryId = 1
  /\ progress = <<>>
  /\ nextProgId = 1
  /\ now = 0
  /\ pending = [s \in Slots |-> Idle]
  /\ last = Step("init", NoBody, NoUser, 0, NoBody)

NextTracker ==
  \/ \E token \in FreshTokens, req \in TrackerRequests : Request(1, token, req)
  \/ CreateSymptomEntry(1)
  \/ GetUserSymptomEntries(1)
  \/ UpdateSymptomEntry(1)
  \/ DeleteSymptomEntry(1)

SpecTracker == InitTwoUsers /\ [][NextTracker]_vars

NextProgress ==
  \/ \E s \in Slots, token \in FreshTokens, req \in ProgressRequests :
       Request(s, token, req)
  \/ \E s \in Slots : UpdateProgress(s)
  \/ \E s \in Slots : GetUserProgress(s)
  \/ \E s \in Slots : ResetProgress(s)

SpecProgress == InitTwoUsers /\ [][NextProgress]_vars

(* the tokens the two accounts were issued at time 0 *)
AccountTokens == {generateToken(u, TwoUsers[u].email, 0) : u \in DOMAIN TwoUsers}

AccountRequests ==
  {Req("GET", <<Lit("auth"), Lit("me")>>, NoBody),
   Req("GET", <<Lit("tracker")>>, NoBody),
   Req("PATCH", <<Lit("auth"), Lit("profile")>>,
       [firstName |-> NameOk, lastName |-> <<"B", "o">>]),
   Req("PATCH", <<Lit("auth"), Lit("surgery-date")>>, [surgeryDate |-> 0])}

(* the tokens issued to the two accounts at any time up to now, and the    *)
(* same payloads signed with another secret                                *)
TokensIssuedSoFar ==
  {generateToken(u, TwoUsers[u].email, t) : u \in DOMAIN TwoUsers, t \in 0..now}

NextToken ==
  \/ Advance
  \/ \E token \in TokensIssuedSoFar : VerifyToken(token)
  \/ \E token \in TokensIssuedSoFar : VerifyToken([token EXCEPT !.sig = "other"])
  \/ VerifyToken(MalformedToken)

SpecToken == InitTwoUsers /\ [][NextToken]_vars

SessionRequests ==
  {Req("GET", <<Lit("auth"), Lit("me")>>, NoBody),
   Req("PATCH", <<Lit("auth"), Lit("change-password")>>,
       [currentPassword |-> PwGood, newPassword |-> PwOther]),
   Req("PATCH", <<Lit("auth"), Lit("change-password")>>,
       [currentPassword |-> PwOther, newPassword |-> PwGood])}

NextSession ==
  \/ Advance
  \/ \E token \in AccountTokens, req \in SessionRequests :
       Request(1, token, req)
  \/ ChangePassword(1, "0")
  \/ GetProfile(1)

SpecSession == InitTwoUsers /\ [][NextSession]_vars

(* surgery dates a client sends: midnights and one noon *)
SurgeryDates == {0, Day, 2 * Day + 1}

SurgeryRequests ==
  {Req("PATCH", <<Lit("auth"), Lit("surgery-date")>>, [surgeryDate |-> d]) :
     d \in SurgeryDates \cup {InvalidDate}}
  \cup {Req("PATCH", <<Lit("auth"), Lit("surgery-date")>>, NoBody),
        Req("GET", <<Lit("auth"), Lit("me")>>, NoBody)}

NextSurgery ==
  \/ Advance
  \/ \E token \in AccountTokens, req \in SurgeryRequests :
       Request(1, token, req)
  \/ UpdateSurgeryDate(1)
  \/ GetProfile(1)

SpecSurgery == InitTwoUsers /\ [][NextSurgery]_vars

NextAccounts ==
  \/ \E u \in DOMAIN TwoUsers : DeleteUser(u)
  \/ \E u \in DOMAIN TwoUsers : DeactivateUser(u)
  \/ \E token \in AccountTokens \cup {NoToken}, req \in AccountRequests :
       Request(1, token, req)
  \/ GetProfile(1)
  \/ GetUserSymptomEntries(1)
  \/ UpdateProfile(1)
  \/ UpdateSurgeryDate(1)

SpecAccounts == InitTwoUsers /\ [][NextAccounts]_vars

(* the diary and progress requests that write, with one that fails for    *)
(* each store                                                              *)
WriteRequests ==
  {Req("POST", <<Lit("tracker")>>, BaseEntry),
   Req("POST", <<Lit("tracker")>>, [BaseEntry EXCEPT !.painLevel = 11]),
   Req("DELETE", <<Lit("tracker"), Lit("clear")>>, NoBody),
   Req("POST", <<Lit("brochures"), Lit("progress")>>,
       [sectionId |-> "s1", itemId |-> "i1", completed |-> TRUE]),
   Req("POST", <<Lit("brochures"), Lit("progress")>>,
       [sectionId |-> "s1", itemId |-> "i1"]),
   Req("DELETE", <<Lit("brochures"), Lit("progress"), Lit("reset")>>, NoBody)}
  \cup {Req("PUT", <<Lit("tracker"), Oid(e)>>, [painLevel |-> 3]) :
          e \in 1..MaxEntries}
  \cup {Req("DELETE", <<Lit("tracker"), Oid(e)>>, NoBody) : e \in 1..MaxEntries}

NextWrites ==
  \/ \E token \in FreshTokens, req \in WriteRequests : Request(1, token, req)
  \/ CreateSymptomEntry(1)
  \/ UpdateSymptomEntry(1)
  \/ DeleteSymptomEntry(1)
  \/ UpdateProgress(1)
  \/ ResetProgress(1)

SpecWrites == InitTwoUsers /\ [][NextWrites]_vars

(* register requests with a surgery date (the first email) and without    *)
(* one (the second)                                                        *)
OnboardingSignups ==
  {[BaseSignup EXCEPT !.surgeryDate = d] : d \in {0, Day}}
  \cup {[BaseSignup EXCEPT !.email = EmailB]}

OnboardingRequests ==
  {Req("GET", <<Lit("auth"), Lit("me")>>, NoBody),
   Req("PATCH", <<Lit("auth"), Lit("surgery-date")>>, [surgeryDate |-> 0]),
   Req("PATCH", <<Lit("auth"), Lit("surgery-date")>>,
       [surgeryDate |-> TokenTTL + Day])}

NextOnboarding ==
  \/ Tick
  \/ \E body \in OnboardingSignups : SignupCheck(1, body)
  \/ SignupSave(1, "0")
  \/ \E token \in FreshTokens, req \in OnboardingRequests :
       Request(1, token, req)
  \/ GetProfile(1)
  \/ UpdateSurgeryDate(1)

SpecOnboarding == Init /\ [][NextOnboarding]_vars

PageParams == {<<"1">>, <<"2">>, <<"3">>, <<"4">>, <<"8">>}
LimitParams == {<<"1">>, <<"2">>, <<"3">>, <<"7">>, <<"5", "0">>, <<"5", "1">>}
SearchParams == {<<"i", "n">>, <<"C", "A", "R", "E">>, <<"z">>}

SectionQueries ==
  {[page |-> p, limit |-> l] : p \in PageParams, l \in LimitParams}
  \cup {[page |-> p, limit |-> l, search |-> q] :
          p \in PageParams, l \in LimitParams, q \in SearchParams}
  \cup {[page |-> p] : p \in PageParams}
  \cup {[search |-> q] : q \in SearchParams}
  \cup {NoBody}

NextSections == \E query \in SectionQueries : GetBrochureSections(query)

SpecSections == Init /\ [][NextSections]_vars

DiaryRequests ==
  {Req("POST", <<Lit("tracker")>>, BaseEntry),
   Req("GET", <<Lit("tracker")>>, NoBody)}
  \cup {Req("PUT", <<Lit("tracker"), Oid(e)>>, b) :
          e \in 1..MaxEntries,
          b \in {[painLevel |-> 3],
                 [location |-> "back", userId |-> 2, timestamp |-> 1]}}

NextDiary ==
  \/ Tick
  \/ \E token \in FreshTokens, req \in DiaryRequests : Request(1, token, req)
  \/ CreateSymptomEntry(1)
  \/ GetUserSymptomEntries(1)
  \/ UpdateSymptomEntry(1)

SpecDiary == InitTwoUsers /\ [][NextDiary]_vars

(* requests that reach the store call of their handler *)
FaultRequests ==
  {Req("GET", <<Lit("auth"), Lit("me")>>, NoBody),
   Req("PATCH", <<Lit("auth"), Lit("surgery-date")>>, [surgeryDate |-> 0]),
   Req("PATCH", <<Lit("auth"), Lit("profile")>>,
       [firstName |-> NameOk, lastName |-> NameOk]),
   Req("PATCH", <<Lit("auth"), Lit("change-password")>>,
       [currentPassword |-> PwGood, newPassword |-> PwOther]),
   Req("POST", <<Lit("tracker")>>, BaseEntry),
   Req("GET", <<Lit("tracker")>>, NoBody),
   Req("PUT", <<Lit("tracker"), Oid(1)>>, [painLevel |-> 3]),
   Req("DELETE", <<Lit("tracker"), Oid(1)>>, NoBody),
   Req("POST", <<Lit("brochures"), Lit("progress")>>,
       [sectionId |-> "s1", itemId |-> "i1", completed |-> TRUE]),
   Req("GET", <<Lit("brochures"), Lit("progress")>>, NoBody),
   Req("DELETE", <<Lit("brochures"), Lit("progress"), Lit("reset")>>, NoBody),
   Req("GET", <<Lit("users")>>, NoBody),
   Req("GET", <<Lit("users"), Oid(1)>>, NoBody)}

FaultToken == generateToken(1, TwoUsers[1].email, 0)

NextFaults ==
  \/ \E req \in FaultRequests : Request(1, FaultToken, req)
  \/ \E req \in FaultRequests : GateStoreFailure(FaultToken, req)
  \/ StoreFailure(1)
  \/ SigninStoreFailure([email |-> EmailA, password |-> PwGood])
  \/ SignupStoreFailure([BaseSignup EXCEPT !.email = <<"c", "@", "x", ".", "c", "o">>])
  \/ Signin([email |-> EmailA, password |-> PwGood])
  \/ CreateSymptomEntry(1)
  \/ GetUserSymptomEntries(1)
  \/ UpdateSymptomEntry(1)
  \/ DeleteSymptomEntry(1)
  \/ UpdateProgress(1)
  \/ GetUserProgress(1)
  \/ ResetProgress(1)
  \/ GetProfile(1)
  \/ UpdateSurgeryDate(1)
  \/ UpdateProfile(1)
  \/ ChangePassword(1, "0")
  \/ GetAllUsers(1)
  \/ GetUserById(1)

SpecFaults == InitTwoUsers /\ [][NextFaults]_vars

(***************************************************************************)
(* Properties of the symptom diary, checked under SpecTracker.             *)
(***************************************************************************)
ClearPath == <<Lit("tracker"), Lit("clear")>>

TrackerHandlers ==
  {"createSymptomEntry", "getUserSymptomEntries", "updateSymptomEntry",
   "deleteSymptomEntry", "clearUserSymptomEntries"}

EntriesOf(userId) == {e \in DOMAIN entries : entries[e].userId = userId}

(* C1: a DELETE /tracker/clear that passed the gate for user U is served   *)
(* by the clear-all handler, answers 200 and leaves U without entries.     *)
C1_ClearRemovesAllEntries ==
  (/\ last.op \in TrackerHandlers
   /\ last.req.method = "DELETE"
   /\ last.req.path = ClearPath)
  => /\ last.op = "clearUserSymptomEntries"
     /\ last.status = 200
     /\ EntriesOf(last.user) = {}

(* C2: an update or delete by U of an existing entry owned by another user *)
(* answers 404, carries no entry data and leaves the stored entries as     *)
(* they were.                                                              *)
C2_ForeignEntryNotFound ==
  [][(/\ last'.op \in {"updateSymptomEntry", "deleteSymptomEntry"}
      /\ IsObjectId(last'.req.path[2])
      /\ last'.req.path[2].oid \in DOMAIN entries
      /\ entries[last'.req.path[2].oid].userId # last'.user)
     => /\ last'.status = 404
        /\ ~Has(last'.body, "data")
        /\ entries' = entries]_vars

(* U asked to overwrite pain level and location of an entry that another   *)
(* user owns, and the entry is still there with its own values             *)
C2_Witness ==
  /\ last.op = "updateSymptomEntry"
  /\ last.status = 404
  /\ Has(last.req.body, "location")
  /\ IsObjectId(last.req.path[2])
  /\ last.req.path[2].oid \in DOMAIN entries
  /\ entries[last.req.path[2].oid].userId # last.user
  /\ entries[last.req.path[2].oid].location = ""

(* C3: the pain level of every stored entry is an integer from 0 to 10.    *)
C3_PainLevelInRange ==
  \A e \in DOMAIN entries :
    entries[e].painLevel \in PainLevelMin..PainLevelMax

(***************************************************************************)
(* Properties of registration and login, checked under SpecSignup.         *)
(***************************************************************************)
(* the stored users whose email equals raw after trim and lowercasing *)
SameEmailUsers(raw) ==
  {u \in DOMAIN users : users[u].email = toLowerCase(trim(raw))}

(* C4: a register request that arrives when a user is stored under the     *)
(* same email (compared after trim and lowercasing), and that passes the   *)
(* input validation, is answered 409 at once; it creates no user and       *)
(* leaves nothing in flight that could create one.                         *)
C4_DuplicateEmailConflict ==
  [][(/\ last'.op \in {"signup", "signupCheck"}
      /\ SameEmailUsers(last'.req.body.email) # {}
      /\ validateRegistration(last'.req.body).isValid)
     => /\ last'.status = 409
        /\ last'.body.error = "Registration failed"
        /\ users' = users
        /\ pending' = pending]_vars

(* the stored email in another letter case is refused with 409 *)
C4_Witness ==
  /\ last.op = "signup"
  /\ last.status = 409
  /\ last.req.body.email = EmailAUpper
  /\ \E u \in DOMAIN users : users[u].email = EmailA

(* C5: no two stored users share an email, and a register request whose    *)
(* save finds the email taken by a user stored since its existence check   *)
(* is answered 409.                                                        *)
C5_ConcurrentDuplicateConflict ==
  /\ \A u, v \in DOMAIN users : users[u].email = users[v].email => u = v
  /\ (/\ last.op = "signupSave"
      /\ last.status # 201
      /\ userSchemaValid(userSchemaSet(last.req.body))
      /\ SameEmailUsers(last.req.body.email) # {})
     => last.status = 409

(* the response every failed login with well-formed input receives *)
InvalidCredentials ==
  [success |-> FALSE, error |-> "Authentication failed",
   errors |-> <<[message |-> "Invalid email or password",
                 field |-> "credentials"]>>]

(* C7: a login answers 200 exactly when a user is stored under the email   *)
(* and the password matches the stored hash; every failed login with       *)
(* well-formed input gets status 400 and the same body, whether the user   *)
(* is missing or the password is wrong.                                    *)
C7_LoginIffCredentials ==
  last.op = "signin" =>
    LET body == last.req.body
        matches == \E u \in SameEmailUsers(body.email) :
                     bcryptCompare(body.password, users[u].password)
    IN /\ last.status = 200 <=> matches
       /\ last.status = 200 => /\ last.user \in SameEmailUsers(body.email)
                               /\ Has(last.body.data, "token")
       /\ (last.status # 200 /\ validateLogin(body).isValid)
            => /\ last.status = 400
               /\ last.body = InvalidCredentials

(* a wrong password for a stored user is answered like an unknown email *)
C7_Witness ==
  /\ last.op = "signin"
  /\ last.status = 400
  /\ last.body = InvalidCredentials
  /\ SameEmailUsers(last.req.body.email) # {}
  /\ last.req.body.password = PwOther

(***************************************************************************)
(* Properties of the stored password, checked under SpecPassword.          *)
(***************************************************************************)
(* C6: every stored password is a bcrypt hash, and after a register or a   *)
(* change of password that succeeded the stored value differs from the     *)
(* password the request submitted.                                         *)
C6_StoredPasswordNotSubmitted ==
  /\ \A u \in DOMAIN users : IsBcryptHash(users[u].password)
  /\ (last.op = "signupSave" /\ last.status = 201)
       => users[last.user].password # last.req.body.password
  /\ (last.op = "changePassword" /\ last.status = 200)
       => users[last.user].password # last.req.body.newPassword

(***************************************************************************)
(* Properties of the reading progress, checked under SpecProgress.         *)
(***************************************************************************)
(* the records a store holds under a key triple *)
RecordsFor(store, userId, sectionId, itemId) ==
  {p \in DOMAIN store : /\ store[p].userId = userId
                        /\ store[p].sectionId = sectionId
                        /\ store[p].itemId = itemId}

(* C8: no two stored records share a (userId, sectionId, itemId) key, and  *)
(* after an upsert the one record under its key carries the completed      *)
(* value of that upsert, whatever an earlier upsert had written.           *)
C8_OneRecordWithLatestValue ==
  /\ \A p, q \in DOMAIN progress :
       (/\ progress[p].userId = progress[q].userId
        /\ progress[p].sectionId = progress[q].sectionId
        /\ progress[p].itemId = progress[q].itemId) => p = q
  /\ (last.op = "updateProgress" /\ last.status = 200)
       => LET body == last.req.body
              recs == RecordsFor(progress, last.user, body.sectionId,
                                 body.itemId)
          IN /\ Cardinality(recs) = 1
             /\ \A p \in recs : progress[p].completed = body.completed

(* the record was written as completed with a note, and a second upsert    *)
(* of the same key has set it back to not completed                        *)
C8_Witness ==
  /\ last.op = "updateProgress"
  /\ last.status = 200
  /\ last.req.body.completed = FALSE
  /\ \E p \in RecordsFor(progress, last.user, last.req.body.sectionId,
                         last.req.body.itemId) :
       progress[p].notes = "done" /\ progress[p].completed = FALSE

(* C9: every upsert request with the required fields completes with 200,   *)
(* also while another upsert of the same key is in flight, and in the      *)
(* store it leaves there is exactly one record under the key, holding the  *)
(* value this request wrote.                                               *)
C9_ConcurrentUpsertsSucceed ==
  [][\A s \in Slots :
       (/\ pending[s].op = "updateProgress"
        /\ pending'[s].op = "idle"
        /\ Has(pending[s].req.body, "completed")
        /\ pending[s].req.body.sectionId # ""
        /\ pending[s].req.body.itemId # "")
       => LET body == pending[s].req.body
              recs == RecordsFor(progress', pending[s].user, body.sectionId,
                                 body.itemId)
          IN /\ last'.status = 200
             /\ last'.body.success
             /\ Cardinality(recs) = 1
             /\ \A p \in recs : progress'[p].completed = body.completed]_vars

(* one upsert has completed while another upsert of the same key with the  *)
(* other completed value is still in flight                                *)
C9_Witness ==
  /\ last.op = "updateProgress"
  /\ last.status = 200
  /\ \E s \in Slots :
       /\ pending[s].op = "updateProgress"
       /\ pending[s].user = last.user
       /\ Has(pending[s].req.body, "completed")
       /\ pending[s].req.body.sectionId = last.req.body.sectionId
       /\ pending[s].req.body.itemId = last.req.body.itemId
       /\ pending[s].req.body.completed # last.req.body.completed

(***************************************************************************)
(* Properties of the authentication gate, checked under Spec.              *)
(***************************************************************************)
(* no token, a token that is not a JWT, one signed with another secret,    *)
(* or one past its expiry                                                  *)
BadToken(token) ==
  \/ token.kind # "jwt"
  \/ token.sig # ServerSecret
  \/ now >= token.exp

(* the routes the gate is required on: auth/me, auth/surgery-date,         *)
(* auth/profile, auth/change-password, users, brochures/progress*,         *)
(* tracker*                                                                *)
ProtectedRequest(req) ==
  LET path == req.path
      routed == Dispatch(req.method, path).handler # "notFound"
  IN \/ path[1] = Lit("tracker")
     \/ routed /\ path[1] = Lit("users")
     \/ routed /\ path[1] = Lit("brochures") /\ path[2] = Lit("progress")
     \/ /\ routed
        /\ path[1] = Lit("auth")
        /\ path[2] \in {Lit("me"), Lit("surgery-date"), Lit("profile"),
                        Lit("change-password")}

(* C10: a request to a protected route that carries no token, a malformed  *)
(* or wrongly signed token or an expired token is answered 401 by the      *)
(* gate: no handler is started, and users, progress records and diary      *)
(* entries stay as they are.                                               *)
C10_BadTokenRejected ==
  [][(/\ last'.op \in {"authenticateToken", "notFound"}
      /\ ProtectedRequest(last'.req)
      /\ BadToken(last'.req.token))
     => /\ last'.status = 401
        /\ last'.body.success = FALSE
        /\ pending' = pending
        /\ stores' = stores]_vars

(* a token the server issued has expired and is refused while the diary    *)
(* holds an entry                                                          *)
C10_Witness ==
  /\ last.op = "authenticateToken"
  /\ last.status = 401
  /\ last.req.token.kind = "jwt"
  /\ last.req.token.sig = ServerSecret
  /\ now >= last.req.token.exp
  /\ last.req.path[1] = Lit("tracker")
  /\ DOMAIN entries # {}

(***************************************************************************)
(* Properties of the gate over accounts that are removed or deactivated,   *)
(* checked under SpecAccounts.                                             *)
(***************************************************************************)
(* C11: a request whose token is validly signed and unexpired, but whose   *)
(* user has been deleted or deactivated, is answered 401 by the gate and   *)
(* starts no handler.                                                      *)
C11_GoneOrInactiveUserRejected ==
  [][(/\ last'.op = "authenticateToken"
      /\ ~BadToken(last'.req.token)
      /\ \/ last'.req.token.userId \notin DOMAIN users
         \/ ~users[last'.req.token.userId].isActive)
     => /\ last'.status = 401
        /\ pending' = pending]_vars

(***************************************************************************)
(* Properties of token verification, checked under SpecToken.  Time is     *)
(* counted in the units of the token's own clock.                          *)
(***************************************************************************)
(* C12: a token issued at time t verifies, yielding its user's id and      *)
(* email, at every time before t + 7 days and at no time from t + 7 days   *)
(* on; a token signed with another secret never verifies.                  *)
C12_TokenValidForSevenDays ==
  last.op = "verifyToken" =>
    LET token == last.req.token
        live == /\ token.kind = "jwt"
                /\ token.sig = ServerSecret
                /\ now < token.iat + 7 * Day
    IN /\ last.body.ok <=> live
       /\ last.body.ok => /\ last.body.userId = token.userId
                          /\ last.body.email = users[token.userId].email

(* a token of the server is refused at the instant t + 7 days *)
C12_Witness ==
  /\ last.op = "verifyToken"
  /\ last.req.token.kind = "jwt"
  /\ last.req.token.sig = ServerSecret
  /\ now = last.req.token.iat + 7 * Day
  /\ ~last.body.ok

(***************************************************************************)
(* Properties of tokens across a change of password, checked under         *)
(* SpecSession.                                                            *)
(***************************************************************************)
PasswordChanged(u) == users[u].password # TwoUsers[u].password

(* C13: a token issued before its user changed the password passes the     *)
(* gate after the change at every time before t + 7 days, and is refused   *)
(* from then on.                                                           *)
C13_TokenSurvivesPasswordChange ==
  [][(/\ last'.op = "authenticateToken"
      /\ last'.req.token.userId \in DOMAIN users
      /\ PasswordChanged(last'.req.token.userId))
     => IF now < last'.req.token.iat + 7 * Day
        THEN /\ last'.status = 0
             /\ pending'[1].user = last'.req.token.userId
        ELSE /\ last'.status = 401
             /\ pending' = pending]_vars

(* the password was changed, time has passed, and the token from before    *)
(* the change has started a handler                                        *)
C13_Witness ==
  /\ last.op = "authenticateToken"
  /\ last.status = 0
  /\ last.req.token.iat = 0
  /\ now > Day
  /\ PasswordChanged(last.req.token.userId)
  /\ pending[1].user = last.req.token.userId

(***************************************************************************)
(* Properties of the surgery date and the recovery day, checked under      *)
(* SpecSurgery.  A calendar date is the instant of its midnight.           *)
(***************************************************************************)
StartOfDay(t) == (t \div Day) * Day

(* C14: a profile read reports recovery day 0 when no surgery date is set  *)
(* or when the surgery date is the date of the day of the read, and 1      *)
(* when it is the date of the day before, at any time of day.              *)
C14_RecoveryDayByCalendarDay ==
  (last.op = "getProfile" /\ last.status = 200) =>
    LET user == last.body.data.user
    IN /\ user.surgeryDate = NullDate => user.recoveryDay = 0
       /\ user.surgeryDate = StartOfDay(now) => user.recoveryDay = 0
       /\ user.surgeryDate = StartOfDay(now) - Day => user.recoveryDay = 1

(* C15: an update of the surgery date to an instant later than the server  *)
(* time is answered 400 and changes no user, and no stored surgery date is *)
(* later than the server time.                                             *)
C15_FutureSurgeryDateRejected ==
  /\ [](\A u \in DOMAIN users :
          users[u].surgeryDate # NullDate => users[u].surgeryDate <= now)
  /\ [][(/\ last'.op = "updateSurgeryDate"
         /\ Has(last'.req.body, "surgeryDate")
         /\ last'.req.body.surgeryDate > now)
        => /\ last'.status = 400
           /\ last'.body.errors[1].field = "surgeryDate"
           /\ users' = users]_vars

(* a user with a stored surgery date asked for a later one that is still   *)
(* in the future, and keeps the stored one                                 *)
C15_Witness ==
  /\ last.op = "updateSurgeryDate"
  /\ last.status = 400
  /\ Has(last.req.body, "surgeryDate")
  /\ last.req.body.surgeryDate > now
  /\ users[last.user].surgeryDate # NullDate
  /\ users[last.user].surgeryDate < last.req.body.surgeryDate

RecordsOfUser(store, userId) ==
  {p \in DOMAIN store : store[p].userId = userId}

(* C17: a reset leaves its user without progress records, nothing but an   *)
(* upsert of that user brings one back, and a list returns exactly the     *)
(* user's stored records; so a list that follows a reset with no upsert    *)
(* of the user in between returns the empty sequence.                      *)
C17_ListAfterResetIsEmpty ==
  /\ []((last.op = "resetProgress")
          => (last.status = 200 /\ RecordsOfUser(progress, last.user) = {}))
  /\ [][\A u \in DOMAIN users :
          (/\ RecordsOfUser(progress, u) = {}
           /\ ~(last'.op = "updateProgress" /\ last'.user = u))
          => RecordsOfUser(progress', u) = {}]_vars
  /\ [][(last'.op = "getUserProgress")
          => /\ last'.status = 200
             /\ {r.id : r \in last'.body.data}
                  = RecordsOfUser(progress, last'.user)
             /\ (last.op = "resetProgress" /\ last.user = last'.user)
                  => last'.body.data = {}]_vars

(* the user had a record, reset, and the list that came right after is     *)
(* empty while the other user's record is still stored                     *)
C17_Witness ==
  /\ last.op = "getUserProgress"
  /\ last.status = 200
  /\ last.body.data = {}
  /\ nextProgId = 3
  /\ Cardinality(DOMAIN progress) = 1

(***************************************************************************)
(* Properties of the change of password, checked under SpecPassword.       *)
(***************************************************************************)
(* C18: a change of password whose new password fails the policy of        *)
(* registration (length, lowercase, uppercase, digit) or equals the        *)
(* current password is answered 400 and leaves the stored hash as it was.  *)
C18_WeakNewPasswordRejected ==
  [][(/\ last'.op = "changePassword"
      /\ Has(last'.req.body, "newPassword")
      /\ \/ registrationPasswordErrors(last'.req.body.newPassword) # <<>>
         \/ last'.req.body.newPassword = last'.req.body.currentPassword)
     => /\ last'.status = 400
        /\ users' = users]_vars

(***************************************************************************)
(* Properties of input validation, checked under SpecSignup.               *)
(***************************************************************************)
(* a registration input outside the bounds: a name of fewer than 2 or more *)
(* than 30 characters after trimming, an email that a stored user may not  *)
(* have, or a password outside the policy                                  *)
ViolatesRegistrationBounds(body) ==
  \/ Len(trim(body.firstName)) < 2 \/ Len(trim(body.firstName)) > 30
  \/ Len(trim(body.lastName)) < 2 \/ Len(trim(body.lastName)) > 30
  \/ ~schemaEmailMatch(toLowerCase(trim(body.email)))
  \/ registrationPasswordErrors(body.password) # <<>>

(* C19: a register request whose input is outside the bounds is answered   *)
(* 400 on arrival; it creates no user and is not passed on to the save.    *)
C19_InvalidRegistrationRejected ==
  [][(/\ last'.op \in {"signup", "signupCheck"}
      /\ ViolatesRegistrationBounds(last'.req.body))
     => /\ last'.status = 400
        /\ users' = users
        /\ pending' = pending]_vars

(* the input fields whose check fails, in the order of the checks *)
FailingFields(op, body) ==
  (IF op = "signup" /\ nameErrors(body.firstName, "First name") # <<>>
   THEN <<"firstName">> ELSE <<>>)
  \o (IF op = "signup" /\ nameErrors(body.lastName, "Last name") # <<>>
      THEN <<"lastName">> ELSE <<>>)
  \o (IF emailErrors(body.email) # <<>> THEN <<"email">> ELSE <<>>)
  \o (IF \/ op = "signup" /\ registrationPasswordErrors(body.password) # <<>>
         \/ op = "signin" /\ body.password = <<>>
      THEN <<"password">> ELSE <<>>)

(* C20: the 400 response to a registration or login input that fails       *)
(* validation lists one (field, message) pair per failing input field,     *)
(* each under the name of that field.                                      *)
C20_ValidationErrorsNameTheirField ==
  (/\ last.op \in {"signup", "signin"}
   /\ last.status = 400
   /\ last.body.error = "Validation failed")
  => [i \in DOMAIN last.body.errors |-> last.body.errors[i].field]
       = FailingFields(last.op, last.req.body)

(***************************************************************************)
(* Properties of store failures, checked under SpecFaults.                 *)
(***************************************************************************)
(* the response body repeats the message of the Error *)
Leaks(body, message) ==
  \/ Has(body, "error") /\ body.error = message
  \/ Has(body, "message") /\ body.message = message
  \/ Has(body, "errors")
       /\ \E i \in DOMAIN body.errors : body.errors[i].message = message

(* C21: a request during which a store call throws is answered 500 (never  *)
(* 400 or 404), the response does not repeat the message of the exception, *)
(* and nothing is stored.                                                  *)
C21_StoreFailureIsGeneric500 ==
  Has(last, "fault")
    => /\ last.status = 500
       /\ ~Leaks(last.body, last.fault)

(***************************************************************************)
(* Properties of the diary list, checked under SpecDiary.  An entry's      *)
(* timestamp is the instant of its creation.                               *)
(***************************************************************************)
(* C22: a list for user U returns each stored entry of U once and no other *)
(* entry, as stored; of two returned entries the one with the later        *)
(* creation instant comes first; and no update changes the creation        *)
(* instant of an entry, so the order does not depend on updates.           *)
C22_ListByRecencyOfCreation ==
  /\ []((last.op = "getUserSymptomEntries" /\ last.status = 200)
          => LET list == last.body.data
             IN /\ {list[i].id : i \in DOMAIN list} = EntriesOf(last.user)
                /\ Len(list) = Cardinality(EntriesOf(last.user))
                /\ \A i \in DOMAIN list : list[i] = EntryDoc(list[i].id)
                /\ \A i, j \in DOMAIN list :
                     list[i].timestamp > list[j].timestamp => i < j)
  /\ [][/\ \A e \in DOMAIN entries \cap DOMAIN entries' :
             entries'[e].timestamp = entries[e].timestamp
        /\ \A e \in DOMAIN entries' \ DOMAIN entries :
             entries'[e].timestamp = now]_vars

(* the list holds two entries, the newer first, and the older one has been *)
(* updated after the newer one was created                                 *)
C22_Witness ==
  /\ last.op = "getUserSymptomEntries"
  /\ last.status = 200
  /\ Len(last.body.data) = 2
  /\ last.body.data[1].timestamp > last.body.data[2].timestamp
  /\ last.body.data[2].updatedAt >= last.body.data[1].timestamp
  /\ last.body.data[2].painLevel = 3

(***************************************************************************)
(* Properties of the brochure routes, checked under Spec.                  *)
(***************************************************************************)
SectionsPath == <<Lit("brochures"), Lit("sections")>>

(* C23: a GET of /brochures/sections, without a section id, is served by   *)
(* the section-list handler and answered 200.                              *)
C23_SectionListServed ==
  (/\ Has(last.req, "path")
   /\ last.req.method = "GET"
   /\ last.req.path = SectionsPath)
  => /\ last.op = "getBrochureSections"
     /\ last.status = 200

(***************************************************************************)
(* Properties of the credential lookup, checked under SpecSignup.          *)
(***************************************************************************)
(* two emails that differ in letter case or in surrounding blanks only *)
SameUpToCaseAndBlanks(a, b) == toLowerCase(trim(a)) = toLowerCase(trim(b))

(* C24: a register request that is handed to the save keeps its password   *)
(* and an email that differs from the submitted one in case and blanks     *)
(* only; a successful save stores that email with a hash of that password; *)
(* and a login with any email that differs from a stored user's email in   *)
(* case and blanks only, and with that user's password, is answered 200    *)
(* with a valid token for that user.                                       *)
C24_LoginIgnoresCaseAndBlanks ==
  /\ [][(last'.op = "signupCheck")
          => \E s \in Slots :
               /\ pending[s] = Idle
               /\ pending'[s].op = "signup"
               /\ SameUpToCaseAndBlanks(pending'[s].data.email,
                                        last'.req.body.email)
               /\ pending'[s].data.password = last'.req.body.password]_vars
  /\ [][(last'.op = "signupSave" /\ last'.status = 201)
          => \E s \in Slots :
               /\ pending[s].op = "signup"
               /\ pending'[s] = Idle
               /\ users'[last'.user].email = pending[s].data.email
               /\ comparePassword(users'[last'.user],
                                  pending[s].data.password)]_vars
  /\ [](last.op = "signin"
          => \A u \in DOMAIN users :
               (/\ SameUpToCaseAndBlanks(last.req.body.email, users[u].email)
                /\ comparePassword(users[u], last.req.body.password))
               => /\ last.status = 200
                  /\ last.user = u
                  /\ last.body.data.user.id = u
                  /\ last.body.data.token.userId = u
                  /\ jwtVerify(last.body.data.token) = "ok")

(* a login that succeeded with an email typed in capitals, or with blanks  *)
(* around it                                                               *)
C24_Witness ==
  /\ last.op = "signin"
  /\ last.status = 200
  /\ last.req.body.email # users[last.user].email
  /\ SameUpToCaseAndBlanks(last.req.body.email, users[last.user].email)

(***************************************************************************)
(* Properties of profile updates for a user that is gone, checked under    *)
(* SpecAccounts.                                                           *)
(***************************************************************************)
(* C25: an update of the profile or of the surgery date whose input passes *)
(* the handler's checks, made for a user that is no longer stored when the *)
(* handler runs, is answered 404 and stores nothing.                       *)
C25_UpdateOfMissingUserNotFound ==
  [][(/\ last'.op \in {"updateProfile", "updateSurgeryDate"}
      /\ last'.user \notin DOMAIN users
      /\ ReachesStore([op |-> last'.op, req |-> last'.req]))
     => /\ last'.status = 404
        /\ users' = users]_vars

(***************************************************************************)
(* Properties of the diary update, checked under SpecDiary.                *)
(***************************************************************************)
DiaryFields == {"date", "painLevel", "location", "description", "medications"}

(* C26: a successful update of entry id leaves the set of stored entries   *)
(* and every other entry as they were, and in the entry itself leaves the  *)
(* owner, the creation timestamp and every diary field the request did not *)
(* supply at their previous values; the response is the entry of that id.  *)
C26_UpdateChangesSuppliedFieldsOnly ==
  [][(last'.op = "updateSymptomEntry" /\ last'.status = 200)
     => LET id == last'.req.path[2].oid
            body == last'.req.body
        IN /\ DOMAIN entries' = DOMAIN entries
           /\ \A e \in DOMAIN entries \ {id} : entries'[e] = entries[e]
           /\ \A f \in {"userId", "timestamp"} \cup (DiaryFields \ DOMAIN body) :
                entries'[id][f] = entries[id][f]
           /\ last'.body.data.id = id
           /\ last'.body.data = [id |-> id] @@ entries'[id]]_vars

(* an update that supplied a location, and an owner and a timestamp other  *)
(* than the entry's, changed the location alone, with another entry stored *)
C26_Witness ==
  /\ last.op = "updateSymptomEntry"
  /\ last.status = 200
  /\ Has(last.req.body, "userId")
  /\ LET id == last.req.path[2].oid
     IN /\ entries[id].userId # last.req.body.userId
        /\ entries[id].timestamp # last.req.body.timestamp
        /\ entries[id].location = "back"
        /\ entries[id].painLevel = 5
        /\ DOMAIN entries # {id}

(***************************************************************************)
(* Properties of the separation of users, checked under SpecWrites.        *)
(***************************************************************************)
WriteHandlers ==
  {"createSymptomEntry", "updateSymptomEntry", "deleteSymptomEntry",
   "clearUserSymptomEntries", "updateProgress", "resetProgress"}

(* what is stored for the users other than userId *)
OfOthers(store, userId) ==
  Restrict(store, {k \in DOMAIN store : store[k].userId # userId})

PasswordStrings ==
  Passwords \cup {bcryptHash(p, salt) : p \in Passwords, salt \in Salts}

(* C28: after a change of password answered 200, login with the account's  *)
(* email and the current password of the request fails and login with the  *)
(* new password succeeds; after a change refused because the current       *)
(* password is incorrect, login with the email succeeds with exactly the   *)
(* passwords it succeeded with before.                                     *)
C28_LoginFollowsPasswordChange ==
  [][(/\ last'.op = "changePassword"
      /\ Has(last'.req.body, "currentPassword")
      /\ Has(last'.req.body, "newPassword")
      /\ last'.user \in DOMAIN users)
     => \A email \in {EmailA, EmailB}, current \in PasswordStrings,
           new \in PasswordStrings :
          (/\ users[last'.user].email = email
           /\ last'.req.body.currentPassword = current
           /\ last'.req.body.newPassword = new)
          => /\ last'.status = 200
                => /\ ~(login([email |-> email, password |-> current]).ok)'
                   /\ (login([email |-> email, password |-> new]).ok)'
             /\ (/\ last'.status = 400
                 /\ last'.body.errors[1].message
                      = "Current password is incorrect")
                => \A p \in PasswordStrings :
                     (login([email |-> email, password |-> p]).ok)'
                       = login([email |-> email, password |-> p]).ok]_vars

(***************************************************************************)
(* Properties of the surgery date at registration, checked under           *)
(* SpecOnboarding.                                                         *)
(***************************************************************************)
(* C29: a successful signup stores the user without a surgery date and     *)
(* answers with the surgery date of the request and recovery day 0; a      *)
(* user without a surgery date stays so through every step but an update   *)
(* of the surgery date answered 200 for that user; and a profile read      *)
(* reports the stored surgery date, with recovery day 0 when there is      *)
(* none.                                                                   *)
C29_SignupStoresNoSurgeryDate ==
  /\ [][(last'.op = "signupSave" /\ last'.status = 201)
          => /\ users'[last'.user].surgeryDate = NullDate
             /\ last'.body.data.user.recoveryDay = 0
             /\ \E s \in Slots :
                  /\ pending[s].op = "signup"
                  /\ pending'[s] = Idle
                  /\ last'.body.data.user.surgeryDate
                       = pending[s].surgeryDate]_vars
  /\ [][\A u \in DOMAIN users \cap DOMAIN users' :
          (/\ users[u].surgeryDate = NullDate
           /\ ~(/\ last'.op = "updateSurgeryDate"
                /\ last'.status = 200
                /\ last'.user = u))
          => users'[u].surgeryDate = NullDate]_vars
  /\ []((last.op = "getProfile" /\ last.status = 200)
          => LET user == last.body.data.user
             IN /\ user.surgeryDate = users[last.user].surgeryDate
                /\ user.surgeryDate = NullDate => user.recoveryDay = 0)

(* a week after a signup that supplied a surgery date, the profile of the  *)
(* user reports no surgery date and recovery day 0                         *)
C29_Witness ==
  /\ last.op = "getProfile"
  /\ last.status = 200
  /\ last.body.data.user.email = EmailA
  /\ last.body.data.user.surgeryDate = NullDate
  /\ last.body.data.user.recoveryDay = 0
  /\ now >= TokenTTL

(***************************************************************************)
(* Properties of the section list, checked under SpecSections.             *)
(***************************************************************************)
(* the sections whose title contains the search, whatever the letter case, *)
(* in the order of the content                                             *)
RECURSIVE MatchingSections(_, _)
MatchingSections(search, n) ==
  IF n = 0 THEN <<>>
  ELSE MatchingSections(search, n - 1)
       \o (IF \/ search = <<>>
              \/ includes(toLowerCase(brochureContent[n].title),
                          toLowerCase(search))
           THEN <<brochureContent[n]>> ELSE <<>>)

(* the docs of pages 1..n of a query, one after the other *)
RECURSIVE PagesUpTo(_, _, _)
PagesUpTo(query, pageOf, n) ==
  IF n = 0 THEN <<>>
  ELSE PagesUpTo(query, pageOf, n - 1)
       \o getBrochureSections([page |-> pageOf[n]] @@ query).data.docs

PageStrings ==
  [n \in 1..9 |-> <<CHOOSE c \in {"1", "2", "3", "4", "5", "6", "7", "8", "9"} :
                       DigitValue(c) = n>>]

(* C30: for a page and a limit of at least 1, the response carries the     *)
(* limit min(limit, 50), totalPages = ceil(totalDocs / that limit), at     *)
(* most that many docs, hasNextPage iff page < totalPages and hasPrevPage  *)
(* iff page > 1; and the docs of pages 1..totalPages of the same limit and *)
(* search, one after the other, are the sections whose title matches the   *)
(* search, each once and in content order.                                 *)
C30_SectionPagination ==
  last.op = "getBrochureSections" =>
    LET query == last.req.query
        data == last.body.data
        requested == IF Has(query, "limit") THEN parseInt(query.limit) ELSE 10
        page == IF Has(query, "page") THEN parseInt(query.page) ELSE 1
        search == IF Has(query, "search") THEN query.search ELSE <<>>
        matching == MatchingSections(search, Len(brochureContent))
    IN /\ data.limit = (IF requested <= 50 THEN requested ELSE 50)
       /\ data.page = page
       /\ data.totalDocs = Len(matching)
       /\ data.totalPages * data.limit >= data.totalDocs
       /\ (data.totalPages - 1) * data.limit < data.totalDocs
       /\ data.totalPages >= 0
       /\ Len(data.docs) <= data.limit
       /\ data.hasNextPage <=> page < data.totalPages
       /\ data.hasPrevPage <=> page > 1
       /\ PagesUpTo(query, PageStrings, data.totalPages) = matching

(* the second of three pages of three: full, with a page before and after  *)
C30_Witness ==
  /\ last.op = "getBrochureSections"
  /\ last.body.data.page = 2
  /\ last.body.data.limit = 3
  /\ last.body.data.totalDocs = 7
  /\ last.body.data.totalPages = 3
  /\ Len(last.body.data.docs) = 3
  /\ last.body.data.hasNextPage
  /\ last.body.data.hasPrevPage

====
